---- MODULE Spec2Model ----
(***************************************************************************)
(* A model of llm-archive-v2: the persistence layer and import pipeline    *)
(* (src/src/import, src/src/db), the backend provider parsers              *)
(* (src/backend/src/parsers), the query cache (src/backend/src/cache.rs),  *)
(* the search engine (src/backend/src/search_enhanced.rs) and the          *)
(* streaming importer (src/backend/src/streaming.rs)                       *)
(*                                                                         *)
(* The specifications share one variable tuple; each leaves the other      *)
(* subsystems' variables at their initial value:                           *)
(*   Spec          import_conversations, run repeatedly on one export file *)
(*   SpecStore     process_conversation_batch on arbitrary batches, SQL    *)
(*                 statements on messages/conversations, run_migrations    *)
(*   SpecParse     the backend parsers as pure functions of the input      *)
(*   SpecCache     SmartCache                                              *)
(*   SpecScript    one caller running the TTL-and-LRU scenario             *)
(*   SpecSearch    incremental_search over the search cache                *)
(*   SpecDsl       SearchDSL::parse                                        *)
(*   SpecStream    parse_streaming, line by line                           *)
(*   SpecParallel  parallel_import                                         *)
(***************************************************************************)
EXTENDS Integers, Sequences, FiniteSets, TLC

VARIABLES
    conversations,   \* rows of table conversations (committed state)
    messages,        \* rows of table messages
    messages_fts,    \* rows of the FTS5 table messages_fts
    import_events,   \* rows of table import_events
    file,            \* the export file on disk, with the arguments it is imported with
    imp,             \* the import_conversations call in progress
    nCalls,          \* number of calls started (imports, or direct batch calls)
    prev,            \* history: the row counts after the last successful import
    lastBatch,       \* history: the last process_conversation_batch call
    cache,           \* SmartCache: LruCache entries, most recently used first
    now,             \* SmartCache: the monotonic clock (Instant::now())
    lastOp,          \* SmartCache: history, the last cache operation and its result
    run,             \* SmartCache: history, the current run of consecutive inserts
    pin,             \* parsers: the input document
    pout,            \* parsers: the parser's result
    script,          \* SmartCache: the caller running the TTL-and-LRU scenario
    search,          \* EnhancedSearch: history, the last incremental_search call
    pimp,            \* StreamingImporter: the parallel_import call
    conv_cache,      \* ConversationCache: LruCache entries, most recently used first
    tasks            \* the tasks running concurrently, each with its position

storeVars == <<conversations, messages, messages_fts, import_events, file, imp,
               nCalls, prev, lastBatch>>
cacheVars == <<cache, now, lastOp, run>>
parseVars == <<pin, pout>>
\* the callers that drive the components above
taskVars == <<conv_cache, tasks>>
driverVars == <<script, search, pimp, taskVars>>
\* what a step of the scenario leaves alone outside the cache
scriptFrame == <<storeVars, parseVars, search, pimp, taskVars>>
vars == <<conversations, messages, messages_fts, import_events, file, imp,
          nCalls, prev, lastBatch, cache, now, lastOp, run, pin, pout, script,
          search, pimp, conv_cache, tasks>>

(***************************************************************************)
(* Bounds of the model                                                     *)
(***************************************************************************)
\* process_conversation_batch is called every 100 conversations; the model
\* scales the batch size down.
BatchSize == 2
\* number of import_conversations calls in one behaviour
MaxImports == 2

(***************************************************************************)
(* Generic helpers                                                         *)
(***************************************************************************)
Max(S) == CHOOSE x \in S : \A y \in S : y <= x

Min2(a, b) == IF a <= b THEN a ELSE b

Max2(a, b) == IF a >= b THEN a ELSE b

RECURSIVE SeqsUpTo(_, _)
SeqsUpTo(S, n) ==
    IF n = 0 THEN {<<>>}
    ELSE LET shorter == SeqsUpTo(S, n - 1)
         IN  shorter \cup {Append(s, x) : s \in {t \in shorter : Len(t) = n - 1}, x \in S}

\* str::to_lowercase on the strings the model uses
ToLower(s) ==
    CASE s = "Assistant" -> "assistant"
      [] s = "Grok"      -> "grok"
      [] OTHER           -> s

(***************************************************************************)
(* The store: schema (src/src/db/schema.rs)                                *)
(***************************************************************************)
\* SQL NULL in a TEXT column
Null == "<null>"

\* INTEGER PRIMARY KEY without AUTOINCREMENT: the new rowid is one more than
\* the largest rowid in the table
NextId(rows) == IF rows = {} THEN 1 ELSE Max({r.id : r \in rows}) + 1

\* mutant of ConflictRows: no unique constraint, an insert never conflicts
ConflictRowsNone(convs, provider, external_id) == {}

\* UNIQUE(provider, external_id): the row an insert of (provider,
\* external_id) conflicts with.  SQLite treats NULLs as distinct in a UNIQUE
\* constraint, so a NULL external_id never conflicts.
ConflictRows(convs, provider, external_id) ==
    IF external_id = Null THEN {}
    ELSE {r \in convs : r.provider = provider /\ r.external_id = external_id}

\* trigger messages_ai
messages_ai(fts, new) ==
    fts \cup {[rowid |-> new.id, content |-> new.content,
               conversation_id |-> new.conversation_id, role |-> new.role]}

\* trigger messages_ad
messages_ad(fts, old) == {f \in fts : f.rowid # old.id}

\* trigger messages_au
messages_au(fts, new) ==
    {IF f.rowid = new.id
        THEN [f EXCEPT !.content = new.content, !.role = new.role]
        ELSE f : f \in fts}

\* CREATE_FTS: drop messages_fts, create it again and populate it from messages
CREATE_FTS(msgs) ==
    {[rowid |-> m.id, content |-> m.content,
      conversation_id |-> m.conversation_id, role |-> m.role] : m \in msgs}

(***************************************************************************)
(* process_conversation_batch (src/src/import/mod.rs)                      *)
(***************************************************************************)
\* A parsed conversation is [provider, external_id, title]; a parsed message
\* is [role, content]; a batch is a sequence of [conv, msgs].
NoMsg == [role |-> Null, content |-> Null]

\* The statements the transaction executes, in order: for each pair the
\* conversation upsert, then one insert per message.
RECURSIVE BatchOps(_)
BatchOps(batch) ==
    IF batch = <<>> THEN <<>>
    ELSE LET item == Head(batch)
         IN  <<[kind |-> "conv", conv |-> item.conv, msg |-> NoMsg]>>
             \o [i \in 1..Len(item.msgs) |->
                    [kind |-> "msg", conv |-> item.conv, msg |-> item.msgs[i]]]
             \o BatchOps(Tail(batch))

\* INSERT INTO conversations ... ON CONFLICT(provider, external_id) DO UPDATE
\* SET title = excluded.title, ... RETURNING id
UpsertConversation(tx, conv) ==
    LET hits == ConflictRows(tx.conversations, conv.provider, conv.external_id)
    IN  IF hits # {}
        THEN LET r == CHOOSE r \in hits : TRUE
             IN  [tx EXCEPT !.conversations = (@ \ {r}) \cup {[r EXCEPT !.title = conv.title]},
                            !.conv_id = r.id,
                            !.nconv = @ + 1]
        ELSE LET id == NextId(tx.conversations)
             IN  [tx EXCEPT !.conversations = @ \cup
                                {[id |-> id, provider |-> conv.provider,
                                  external_id |-> conv.external_id, title |-> conv.title]},
                            !.conv_id = id,
                            !.nconv = @ + 1]

\* INSERT INTO messages (...) VALUES (conv_id.id, role, content, ...), which
\* fires trigger messages_ai
InsertMessage(tx, msg) ==
    LET row == [id |-> NextId(tx.messages), conversation_id |-> tx.conv_id,
                role |-> msg.role, content |-> msg.content]
    IN  [tx EXCEPT !.messages = @ \cup {row},
                   !.fts = messages_ai(@, row),
                   !.nmsg = @ + 1]

ExecOp(tx, op) ==
    IF op.kind = "conv" THEN UpsertConversation(tx, op.conv) ELSE InsertMessage(tx, op.msg)

\* the transaction after its first n statements
RECURSIVE RunTx(_, _, _)
RunTx(tx, ops, n) == IF n = 0 THEN tx ELSE ExecOp(RunTx(tx, ops, n - 1), ops[n])

\* pool.begin()
BeginTx(db) ==
    [conversations |-> db.conversations, messages |-> db.messages, fts |-> db.fts,
     conv_id |-> 0, nconv |-> 0, nmsg |-> 0]

Tables(tx) == [conversations |-> tx.conversations, messages |-> tx.messages, fts |-> tx.fts]

\* tx.commit()
Commit(db, tx) == Tables(tx)

\* mutant of Rollback: the statements executed before the failure stay
RollbackKeepsWrites(db, tx) == Tables(tx)

\* The transaction guard is dropped without commit (an early return by `?`):
\* everything it wrote is rolled back.
Rollback(db, tx) == db

\* Where the store may fail in a batch: 0 is pool.begin(), i in 1..n the i-th
\* statement, n+1 the commit; NoFail is a run without failure.
NoFail == 0 - 1

FailPoints(batch) == {NoFail} \cup (0 .. Len(BatchOps(batch)) + 1)

\* the largest fail point of any batch of the model: BatchSize pairs of a
\* conversation and at most two messages, and the commit
MaxFailPoint == 3 * BatchSize + 1

process_conversation_batch(db, batch, failAt) ==
    LET ops == BatchOps(batch)
        n == Len(ops)
        done == IF failAt = NoFail THEN n
                ELSE IF failAt = 0 THEN 0
                ELSE IF failAt > n THEN n ELSE failAt - 1
        tx == RunTx(BeginTx(db), ops, done)
    IN  IF failAt = NoFail
        THEN [ok |-> TRUE, error |-> Null, db |-> Commit(db, tx),
              conversations |-> tx.nconv, messages |-> tx.nmsg, wrote |-> done > 0]
        ELSE [ok |-> FALSE,
              error |-> IF failAt = 0 \/ failAt > n THEN "database error"
                        ELSE IF ops[failAt].kind = "conv"
                             THEN "Failed to insert conversation"
                             ELSE "Failed to insert message",
              db |-> IF failAt = 0 THEN db ELSE Rollback(db, tx),
              conversations |-> 0, messages |-> 0, wrote |-> done > 0]

(***************************************************************************)
(* Export files and the native parsers (src/src/import/parsers)            *)
(***************************************************************************)
\* A source conversation is [ext, title, ok, msgs]: ext is the source's own
\* conversation id (Null when the export carries none), ok is FALSE when the
\* element lacks what the parser's structure requires, msgs is a sequence of
\* [sender, content] (content Null when the source message has no text).
\* A file is [provider, bridge, kind, convs]: the provider name and the
\* use_python_bridge flag the caller passes, kind "ok", "unreadable" or
\* "malformed" (not JSON).  For an import through the Python bridge convs is
\* the list parse_export returns.
ProviderNames == {"chatgpt", "claude", "gemini", "Grok", "zed", "foo"}

SrcConvs ==
    { [ext |-> "e1", title |-> "t1", ok |-> TRUE,
       msgs |-> <<[sender |-> "user", content |-> "a"],
                  [sender |-> "Assistant", content |-> "b"]>>],
      [ext |-> Null, title |-> "t1", ok |-> TRUE,
       msgs |-> <<[sender |-> "human", content |-> "a"]>>],
      [ext |-> "e1", title |-> "t2", ok |-> TRUE,
       msgs |-> <<[sender |-> "critic", content |-> "b"],
                  [sender |-> "user", content |-> Null]>>],
      [ext |-> "e2", title |-> "t2", ok |-> FALSE, msgs |-> <<>>] }

MaxFileLen == BatchSize + 1

Files ==
    {f \in [provider : ProviderNames, bridge : BOOLEAN,
            kind : {"ok", "unreadable", "malformed"},
            convs : SeqsUpTo(SrcConvs, MaxFileLen)] :
        f.kind # "ok" => f.convs = <<>>}

\* ProviderType::from_str followed by as_str
ProviderFromStr(s) ==
    LET l == ToLower(s)
    IN  CASE l \in {"chatgpt", "openai"}   -> "chatgpt"
          [] l \in {"claude", "anthropic"} -> "claude"
          [] l \in {"gemini", "google"}    -> "gemini"
          [] l \in {"xai", "grok"}         -> "xai"
          [] l = "zed"                     -> "zed"
          [] OTHER                         -> "unknown"

\* the role each native parse_message gives a sender, Null when the message
\* is skipped
NativeRole(ptype, sender) ==
    CASE ptype = "chatgpt" ->
            IF sender \in {"user", "assistant", "system", "tool"} THEN sender ELSE Null
      [] ptype = "claude" ->
            IF sender = "human" THEN "user"
            ELSE IF sender = "assistant" THEN "assistant" ELSE Null
      [] ptype = "gemini" ->
            LET r == ToLower(sender)
            IN  IF r \in {"user", "human"} THEN "user"
                ELSE IF r \in {"model", "assistant", "gemini"} THEN "assistant"
                ELSE IF r = "system" THEN "system" ELSE Null
      [] ptype = "xai" ->
            LET r == ToLower(sender)
            IN  IF r \in {"user", "human", "question"} THEN "user"
                ELSE IF r \in {"grok", "assistant", "ai", "model", "answer"} THEN "assistant"
                ELSE IF r = "system" THEN "system" ELSE Null
      [] OTHER ->
            LET r == ToLower(sender)
            IN  IF r \in {"user", "human", "developer"} THEN "user"
                ELSE IF r \in {"assistant", "ai", "zed"} THEN "assistant"
                ELSE IF r = "system" THEN "system" ELSE Null

\* the native parse_message: the parsed message, or NoMsg when it is skipped
NativeMessage(ptype, m) ==
    LET role == NativeRole(ptype, m.sender)
    IN  IF role = Null THEN NoMsg
        ELSE IF m.content = Null
             THEN IF ptype = "zed" THEN [role |-> role, content |-> ""] ELSE NoMsg
             ELSE [role |-> role, content |-> m.content]

\* the bridge's parse_message: role and content are taken as they are
BridgeMessage(m) ==
    IF m.content = Null THEN NoMsg ELSE [role |-> m.sender, content |-> m.content]

\* filter_map(parse_message) over the source messages
RECURSIVE ParseMessages(_, _, _)
ParseMessages(ptype, bridge, msgs) ==
    IF msgs = <<>> THEN <<>>
    ELSE LET m == IF bridge THEN BridgeMessage(Head(msgs))
                  ELSE NativeMessage(ptype, Head(msgs))
             rest == ParseMessages(ptype, bridge, Tail(msgs))
         IN  IF m = NoMsg THEN rest ELSE <<m>> \o rest

\* whether serde deserializes the file into the native parser's structures:
\* ChatGPTConversation.id and ClaudeExport.uuid are required strings, a
\* ClaudeMessage needs its text, and a Claude file is one conversation
NativeDeserializes(ptype, f) ==
    /\ f.kind = "ok"
    /\ \A i \in 1..Len(f.convs) :
          /\ f.convs[i].ok
          /\ ptype \in {"chatgpt", "claude"} => f.convs[i].ext # Null
          /\ ptype = "claude" =>
                \A j \in 1..Len(f.convs[i].msgs) : f.convs[i].msgs[j].content # Null
    /\ ptype = "claude" => Len(f.convs) = 1

\* the (conversation, messages) pairs a parser pushes into its batches, in
\* file order: the native import loops skip a conversation without messages,
\* the bridge skips one that parse_conversation rejects
RECURSIVE ParseConvs(_, _, _)
ParseConvs(ptype, bridge, convs) ==
    IF convs = <<>> THEN <<>>
    ELSE LET c == Head(convs)
             msgs == ParseMessages(ptype, bridge, c.msgs)
             item == [conv |-> [provider |-> ptype, external_id |-> c.ext,
                                title |-> c.title],
                      msgs |-> msgs]
             rest == ParseConvs(ptype, bridge, Tail(convs))
         IN  IF bridge
             THEN IF c.ok THEN <<item>> \o rest ELSE rest
             ELSE IF msgs = <<>> THEN rest ELSE <<item>> \o rest

\* reading and parsing the file: [ok, error, items, errors]
ParseFile(ptype, bridge, f) ==
    IF f.kind = "unreadable"
    THEN [ok |-> FALSE, error |-> "Failed to read export file", items |-> <<>>, errors |-> 0]
    ELSE IF f.kind = "malformed" \/ (~bridge /\ ~NativeDeserializes(ptype, f))
    THEN [ok |-> FALSE, error |-> "Failed to parse export JSON", items |-> <<>>, errors |-> 0]
    ELSE [ok |-> TRUE, error |-> Null,
          items |-> ParseConvs(ptype, bridge, f.convs),
          errors |-> IF bridge
                     THEN Cardinality({i \in 1..Len(f.convs) : ~f.convs[i].ok})
                     ELSE 0]

(***************************************************************************)
(* import_conversations (src/src/import/mod.rs) as a process               *)
(***************************************************************************)
ZeroStats == [conversations |-> 0, messages |-> 0, errors |-> 0]

\* bridge is the use_python_bridge argument, ptype the ProviderType,
\* event_id the id log_import_start returned, queue the parsed pairs not yet
\* processed, stats the ImportStats, result "ok" or the error message
IdleImp ==
    [pc |-> "idle", bridge |-> FALSE, ptype |-> Null,
     event_id |-> 0, queue |-> <<>>, stats |-> ZeroStats, result |-> Null]

NoPrev == [valid |-> FALSE, convs |-> 0, msgs |-> 0]

NoBatch == [seq |-> 0, batch |-> <<>>, ok |-> TRUE, wrote |-> FALSE]

Db == [conversations |-> conversations, messages |-> messages, fts |-> messages_fts]

\* the sqlx error of a failed statement on import_events
AuditWriteError == "database error (import_events)"

\* log_import_start: INSERT INTO import_events ... RETURNING id
log_import_start(events, provider) ==
    LET id == NextId(events)
    IN  [events |-> events \cup
                      {[id |-> id, event_type |-> "import_start", provider |-> provider,
                        status |-> "in_progress", stats |-> <<>>, error |-> Null]},
         id |-> id]

\* log_import_complete: UPDATE import_events SET status, stats, error WHERE id
log_import_complete(events, event_id, stats, error) ==
    {IF e.id = event_id
        THEN [e EXCEPT !.status = IF error # Null THEN "failed" ELSE "completed",
                       !.stats = <<stats.conversations, stats.messages, stats.errors>>,
                       !.error = error]
        ELSE e : e \in events}

\* import_conversations up to the first batch: an unknown provider returns
\* at once; log_import_start may fail in the store; then the parser's import
\* (or import_with_python) reads and parses the file
ImportCall ==
    /\ imp.pc = "idle"
    /\ nCalls < MaxImports
    /\ nCalls' = nCalls + 1
    /\ LET ptype == ProviderFromStr(file.provider)
           started == log_import_start(import_events, file.provider)
           r == ParseFile(ptype, file.bridge, file)
           call == [IdleImp EXCEPT !.bridge = file.bridge, !.ptype = ptype]
       IN  IF ptype = "unknown"
           THEN /\ imp' = [call EXCEPT !.pc = "done", !.result = "Unknown provider"]
                /\ UNCHANGED import_events
           ELSE \/ /\ import_events' = started.events
                   /\ imp' = IF ~r.ok
                             THEN [call EXCEPT !.pc = "complete", !.event_id = started.id,
                                               !.result = r.error]
                             ELSE IF r.items = <<>>
                             THEN [call EXCEPT !.pc = "complete", !.event_id = started.id,
                                               !.result = "ok", !.stats.errors = r.errors]
                             ELSE [call EXCEPT !.pc = "batch", !.event_id = started.id,
                                               !.queue = r.items, !.stats.errors = r.errors]
                \/ /\ UNCHANGED import_events
                   /\ imp' = [call EXCEPT !.pc = "done", !.result = AuditWriteError]
    /\ UNCHANGED <<conversations, messages, messages_fts, file, prev, lastBatch>>
    /\ UNCHANGED <<cacheVars, parseVars, driverVars>>

\* one call of process_conversation_batch on the next BatchSize pairs.  The
\* native parsers return its error (`?`); the bridge counts it and goes on.
BatchStep(failAt) ==
    /\ imp.pc = "batch"
    /\ LET k == Min2(BatchSize, Len(imp.queue))
           batch == SubSeq(imp.queue, 1, k)
           rest == SubSeq(imp.queue, k + 1, Len(imp.queue))
       IN  /\ failAt \in FailPoints(batch)
           /\ LET r == process_conversation_batch(Db, batch, failAt)
                  more == IF rest = <<>>
                          THEN [imp EXCEPT !.pc = "complete", !.queue = rest, !.result = "ok"]
                          ELSE [imp EXCEPT !.queue = rest]
              IN  /\ conversations' = r.db.conversations
                  /\ messages' = r.db.messages
                  /\ messages_fts' = r.db.fts
                  /\ lastBatch' = [seq |-> 1 - lastBatch.seq, batch |-> batch,
                                   ok |-> r.ok, wrote |-> r.wrote]
                  /\ imp' = IF r.ok
                            THEN [more EXCEPT !.stats.conversations = @ + r.conversations,
                                              !.stats.messages = @ + r.messages]
                            ELSE IF imp.bridge
                            THEN [more EXCEPT !.stats.errors = @ + 1]
                            ELSE [imp EXCEPT !.pc = "complete", !.result = r.error]
    /\ UNCHANGED <<import_events, file, nCalls, prev>>
    /\ UNCHANGED <<cacheVars, parseVars, driverVars>>

\* log_import_complete, which may itself fail in the store (`?`)
CompleteStep ==
    /\ imp.pc = "complete"
    /\ \/ /\ import_events' =
                log_import_complete(import_events, imp.event_id, imp.stats,
                                    IF imp.result = "ok" THEN Null ELSE imp.result)
          /\ imp' = [imp EXCEPT !.pc = "done"]
       \/ /\ UNCHANGED import_events
          /\ imp' = [imp EXCEPT !.pc = "done", !.result = AuditWriteError]
    /\ UNCHANGED <<conversations, messages, messages_fts, file, nCalls, prev, lastBatch>>
    /\ UNCHANGED <<cacheVars, parseVars, driverVars>>

\* import_conversations has returned imp.result; the caller goes on.  prev
\* remembers the row counts after an import that returned Ok without errors.
ImportReturn ==
    /\ imp.pc = "done"
    /\ imp' = IdleImp
    /\ prev' = IF imp.result = "ok" /\ imp.stats.errors = 0
               THEN [prev EXCEPT !.valid = TRUE,
                                 !.convs = Cardinality(conversations),
                                 !.msgs = Cardinality(messages)]
               ELSE [prev EXCEPT !.valid = FALSE, !.convs = 0, !.msgs = 0]
    /\ UNCHANGED <<conversations, messages, messages_fts, import_events, file, nCalls,
                   lastBatch>>
    /\ UNCHANGED <<cacheVars, parseVars, driverVars>>

InitTables ==
    /\ conversations = {}
    /\ messages = {}
    /\ messages_fts = {}
    /\ import_events = {}
    /\ imp = IdleImp
    /\ nCalls = 0
    /\ prev = NoPrev
    /\ lastBatch = NoBatch

NoFile == [provider |-> Null, bridge |-> FALSE, kind |-> Null, convs |-> <<>>]

\* the value get returns for a miss (None)
Absent == "<absent>"

\* op is the operation, key its key, ret what get returned, at the instant
\* evict_expired read, n the number of entries the operation removed
NoOp == [op |-> "none", key |-> 0, ret |-> Absent, at |-> 0, n |-> 0]

InitCacheIdle ==
    /\ cache = <<>>
    /\ now = 0
    /\ lastOp = NoOp
    /\ run = <<>>

\* no document is being parsed
NoDoc == [provider |-> Null]

NoOut == [kind |-> "pending"]

InitParseIdle ==
    /\ pin = NoDoc
    /\ pout = NoOut

\* no scenario is being run
NoScript == [pc |-> 0, keys |-> <<>>, reads |-> <<>>]

\* no search has been made: n counts the calls, ret is "hit" for a cache
\* hit, "ok" or "err" for a miss, ran lists the store queries the call ran
NoSearch == [n |-> 0, query |-> <<>>, limit |-> 0, ret |-> "none", ran |-> <<>>,
             results |-> <<>>]

\* no parallel_import call has been made
NoImport == [pc |-> "idle"]

\* no task is running
NoTasks == <<>>

InitDriversIdle ==
    /\ script = NoScript
    /\ search = NoSearch
    /\ pimp = NoImport
    /\ conv_cache = <<>>
    /\ tasks = NoTasks

Init == InitTables /\ file \in Files /\ InitCacheIdle /\ InitParseIdle /\ InitDriversIdle

Next ==
    \/ ImportCall
    \/ \E failAt \in NoFail .. MaxFailPoint : BatchStep(failAt)
    \/ CompleteStep
    \/ ImportReturn

Spec == Init /\ [][Next]_vars

(***************************************************************************)
(* Claims on import_conversations                                          *)
(***************************************************************************)
\* the ImportStats of the call that has just returned Ok report no error
ReturnedClean == imp.pc = "done" /\ imp.result = "ok" /\ imp.stats.errors = 0

\* C3: when the file has been imported once without error and a second
\* import of the same file returns without error, the conversations table
\* has as many rows as after the first import and the messages table at most
\* twice as many, also when the source conversations carry no external id.
C3_ReimportKeepsConversationCount ==
    (ReturnedClean /\ prev.valid) =>
        /\ Cardinality(conversations) = prev.convs
        /\ Cardinality(messages) <= 2 * prev.msgs

\* C5: when import_conversations has returned an error (an unknown provider,
\* an unreadable or malformed file, a store failure in a batch; a failure of
\* the write to import_events itself is left aside), import_events holds a
\* row for that import with status 'failed' and the error message in its
\* error column.
C5_FailedImportLeavesAuditRow ==
    (imp.pc = "done" /\ imp.result \notin {"ok", AuditWriteError}) =>
        \E e \in import_events :
            /\ e.id = imp.event_id
            /\ e.status = "failed"
            /\ e.error = imp.result

\* the canonical roles (models.rs, Message.role)
Roles == {"user", "assistant", "system", "tool"}

\* C7: whatever import path wrote it, every row of messages has a role among
\* user, assistant, system, tool.
C7_StoredRolesCanonical == \A m \in messages : m.role \in Roles

(***************************************************************************)
(* SpecStore: process_conversation_batch called directly, SQL statements   *)
(* on the tables, run_migrations (src/src/db)                              *)
(***************************************************************************)
\* number of statements and calls in one behaviour of SpecStore
MaxStoreOps == 2
\* ids an UPDATE may give a message
MaxMsgId == 3

\* the pairs the batches of SpecStore are made of: a conversation with an
\* external id under two titles, and one without external id
StoreItems ==
    { [conv |-> [provider |-> "chatgpt", external_id |-> "e1", title |-> "t1"],
       msgs |-> <<[role |-> "user", content |-> "a"]>>],
      [conv |-> [provider |-> "chatgpt", external_id |-> "e1", title |-> "t2"],
       msgs |-> <<[role |-> "assistant", content |-> "b"]>>],
      [conv |-> [provider |-> "gemini", external_id |-> Null, title |-> "t1"],
       msgs |-> <<[role |-> "user", content |-> "a"]>>] }

StoreBatches == SeqsUpTo(StoreItems, BatchSize) \ {<<>>}

\* a caller runs process_conversation_batch on a batch
BatchCall(batch, failAt) ==
    /\ nCalls < MaxStoreOps
    /\ nCalls' = nCalls + 1
    /\ failAt \in FailPoints(batch)
    /\ LET r == process_conversation_batch(Db, batch, failAt)
       IN  /\ conversations' = r.db.conversations
           /\ messages' = r.db.messages
           /\ messages_fts' = r.db.fts
           /\ lastBatch' = [seq |-> 1 - lastBatch.seq, batch |-> batch,
                            ok |-> r.ok, wrote |-> r.wrote]
    /\ UNCHANGED <<import_events, file, imp, prev>>
    /\ UNCHANGED <<cacheVars, parseVars, driverVars>>

\* UPDATE messages SET id = ?, role = ?, content = ? WHERE id = ?, which fires
\* trigger messages_au; the statement fails when the new id is taken
SqlUpdateMessage(m, id, role, content) ==
    /\ nCalls < MaxStoreOps
    /\ nCalls' = nCalls + 1
    /\ m \in messages
    /\ \A o \in messages \ {m} : o.id # id
    /\ LET new == [m EXCEPT !.id = id, !.role = role, !.content = content]
       IN  /\ messages' = (messages \ {m}) \cup {new}
           /\ messages_fts' = messages_au(messages_fts, new)
    /\ UNCHANGED <<conversations, import_events, file, imp, prev, lastBatch>>
    /\ UNCHANGED <<cacheVars, parseVars, driverVars>>

\* DELETE FROM messages WHERE id = ?, which fires trigger messages_ad
SqlDeleteMessage(m) ==
    /\ nCalls < MaxStoreOps
    /\ nCalls' = nCalls + 1
    /\ m \in messages
    /\ messages' = messages \ {m}
    /\ messages_fts' = messages_ad(messages_fts, m)
    /\ UNCHANGED <<conversations, import_events, file, imp, prev, lastBatch>>
    /\ UNCHANGED <<cacheVars, parseVars, driverVars>>

\* the FTS rows left after trigger messages_ad has fired for every row of gone
RECURSIVE DeleteAll(_, _)
DeleteAll(fts, gone) ==
    IF gone = {} THEN fts
    ELSE LET m == CHOOSE m \in gone : TRUE
         IN  DeleteAll(messages_ad(fts, m), gone \ {m})

\* DELETE FROM conversations WHERE id = ?: the foreign key of messages is
\* ON DELETE CASCADE, and each cascaded delete fires trigger messages_ad
SqlDeleteConversation(c) ==
    /\ nCalls < MaxStoreOps
    /\ nCalls' = nCalls + 1
    /\ c \in conversations
    /\ LET gone == {m \in messages : m.conversation_id = c.id}
       IN  /\ conversations' = conversations \ {c}
           /\ messages' = messages \ gone
           /\ messages_fts' = DeleteAll(messages_fts, gone)
    /\ UNCHANGED <<import_events, file, imp, prev, lastBatch>>
    /\ UNCHANGED <<cacheVars, parseVars, driverVars>>

\* run_migrations on the existing database: CREATE_TABLES and CREATE_INDEXES
\* change nothing (IF NOT EXISTS), CREATE_FTS rebuilds messages_fts
RunMigrations ==
    /\ nCalls < MaxStoreOps
    /\ nCalls' = nCalls + 1
    /\ messages_fts' = CREATE_FTS(messages)
    /\ UNCHANGED <<conversations, messages, import_events, file, imp, prev, lastBatch>>
    /\ UNCHANGED <<cacheVars, parseVars, driverVars>>

InitStore ==
    InitTables /\ file = NoFile /\ InitCacheIdle /\ InitParseIdle /\ InitDriversIdle

NextStore ==
    \/ \E batch \in StoreBatches, failAt \in NoFail .. MaxFailPoint : BatchCall(batch, failAt)
    \/ \E m \in messages, id \in 1 .. MaxMsgId, content \in {"a", "c"} :
          SqlUpdateMessage(m, id, "system", content)
    \/ \E m \in messages : SqlDeleteMessage(m)
    \/ \E c \in conversations : SqlDeleteConversation(c)
    \/ RunMigrations

SpecStore == InitStore /\ [][NextStore]_vars

(***************************************************************************)
(* Claims on the store                                                     *)
(***************************************************************************)
RECURSIVE BatchMessageCount(_)
BatchMessageCount(batch) ==
    IF batch = <<>> THEN 0 ELSE Len(Head(batch).msgs) + BatchMessageCount(Tail(batch))

\* every conversation of the batch has a row in convs, and every message of
\* the batch a row among newMsgs that belongs to it and an FTS row
BatchVisible(batch, convs, newMsgs, fts) ==
    /\ Cardinality(newMsgs) = BatchMessageCount(batch)
    /\ \A i \in 1..Len(batch) :
          \E r \in convs :
             /\ r.provider = batch[i].conv.provider
             /\ r.external_id = batch[i].conv.external_id
             /\ \A j \in 1..Len(batch[i].msgs) :
                   \E m \in newMsgs :
                      /\ m.conversation_id = r.id
                      /\ m.role = batch[i].msgs[j].role
                      /\ m.content = batch[i].msgs[j].content
                      /\ \E f \in fts :
                            f.rowid = m.id /\ f.content = m.content /\ f.role = m.role

\* C1: process_conversation_batch is all-or-nothing.  A call that returns an
\* error leaves conversations, messages and messages_fts as they were before
\* the call; a call that returns Ok leaves every conversation and every
\* message of its batch, with its FTS row, in the store.
C1_BatchAllOrNothing ==
    [][lastBatch'.seq # lastBatch.seq =>
          IF lastBatch'.ok
          THEN BatchVisible(lastBatch'.batch, conversations', messages' \ messages,
                            messages_fts')
          ELSE UNCHANGED <<conversations, messages, messages_fts>>]_vars

\* a batch has failed after statements of its transaction had been executed,
\* on a store that already held rows
C1_Witness == ~lastBatch.ok /\ lastBatch.wrote /\ conversations # {} /\ messages # {}

RowsOf(convs, conv) ==
    {r \in convs : r.provider = conv.provider /\ r.external_id = conv.external_id}

C4_FtsInSync ==
    /\ {f.rowid : f \in messages_fts} = {m.id : m \in messages}
    /\ \A f \in messages_fts, m \in messages :
          f.rowid = m.id => (f.content = m.content /\ f.role = m.role)

(***************************************************************************)
(* SpecCache: SmartCache (src/backend/src/cache.rs)                        *)
(***************************************************************************)
\* SmartCache::new(capacity, ttl_seconds), scaled down
Capacity == 2
TTL == 2
\* how long before it holds the write lock an operation may have read the
\* clock
MaxLag == 1

NumKeys == Capacity + 1
Keys == 1 .. NumKeys
\* the value cached under a key: the result computed for that key
ValueOf(k) == <<"result", k>>
\* the clock stops after every entry inserted at TTL has expired
MaxTime == 2 * TTL + 1

CacheKeys(c) == {c[i].key : i \in 1..Len(c)}

Entry(c, k) == c[CHOOSE i \in 1..Len(c) : c[i].key = k]

\* LruCache::pop
LruPop(c, k) == SelectSeq(c, LAMBDA e : e.key # k)

\* mutant of LruPut: a full cache evicts its most recently used entry
LruPutEvictsNewest(c, k, item) ==
    IF k \in CacheKeys(c) THEN <<item>> \o LruPop(c, k)
    ELSE IF Len(c) = Capacity THEN <<item>> \o Tail(c)
    ELSE <<item>> \o c

\* LruCache::put: the entry becomes the most recently used; a new key in a
\* full cache evicts the least recently used entry
LruPut(c, k, item) ==
    IF k \in CacheKeys(c) THEN <<item>> \o LruPop(c, k)
    ELSE IF Len(c) = Capacity THEN <<item>> \o SubSeq(c, 1, Capacity - 1)
    ELSE <<item>> \o c

\* mutant of LruGetMut: a read leaves the recency order as it is
LruGetMutKeepsOrder(c, k) == c

\* LruCache::get_mut: the entry becomes the most recently used
LruGetMut(c, k) == <<Entry(c, k)>> \o LruPop(c, k)

\* mutant of Fresh: an entry is still served at the instant it expires
FreshAtExpiry(e, t) == e.expires_at >= t

\* get: item.expires_at > Instant::now()
Fresh(e, t) == e.expires_at > t

\* mutant of Expired: an entry that expires at the instant read is kept
ExpiredStrictly(e, t) == e.expires_at < t

\* evict_expired: item.expires_at <= now
Expired(e, t) == e.expires_at <= t

\* what get returns in a cache c at instant t
GetResult(c, k, t) ==
    IF k \in CacheKeys(c) /\ Fresh(Entry(c, k), t) THEN Entry(c, k).value ELSE Absent

\* the last Capacity + 1 inserts of the run
Window(r) == IF Len(r) <= Capacity + 1 THEN r ELSE SubSeq(r, Len(r) - Capacity, Len(r))

\* SmartCache::insert: expires_at is computed before the write lock is taken
SmartCacheInsert(k, v, lag) ==
    /\ lag <= now
    /\ LET item == [key |-> k, value |-> v, expires_at |-> (now - lag) + TTL]
       IN  /\ cache' = LruPut(cache, k, item)
           /\ lastOp' = [NoOp EXCEPT !.op = "insert", !.key = k]
           /\ run' = Window(Append(run, [key |-> k, value |-> v]))
    /\ UNCHANGED now

\* mutant of SmartCacheGet: get returns the entry without testing its expiry
SmartCacheGetIgnoresExpiry(k) ==
    /\ IF k \in CacheKeys(cache)
       THEN /\ cache' = LruGetMut(cache, k)
            /\ lastOp' = [op |-> "get", key |-> k, ret |-> Entry(cache, k).value,
                          at |-> 0, n |-> 0]
       ELSE /\ cache' = cache
            /\ lastOp' = [op |-> "get", key |-> k, ret |-> Absent, at |-> 0, n |-> 0]
    /\ run' = <<>>
    /\ UNCHANGED now

\* SmartCache::get: under the write lock, get_mut, then the expiry test
\* against the clock, then pop of an expired entry
SmartCacheGet(k) ==
    /\ IF k \in CacheKeys(cache)
       THEN LET c == LruGetMut(cache, k)
            IN  IF Fresh(Entry(c, k), now)
                THEN /\ cache' = c
                     /\ lastOp' = [op |-> "get", key |-> k, ret |-> Entry(c, k).value,
                                   at |-> 0, n |-> 0]
                ELSE /\ cache' = LruPop(c, k)
                     /\ lastOp' = [op |-> "get", key |-> k, ret |-> Absent,
                                   at |-> 0, n |-> 1]
       ELSE /\ cache' = cache
            /\ lastOp' = [op |-> "get", key |-> k, ret |-> Absent, at |-> 0, n |-> 0]
    /\ run' = <<>>
    /\ UNCHANGED now

\* insert called on its own
Insert(k, v, lag) ==
    /\ SmartCacheInsert(k, v, lag)
    /\ UNCHANGED <<storeVars, parseVars, driverVars>>

\* get called on its own
Get(k) ==
    /\ SmartCacheGet(k)
    /\ UNCHANGED <<storeVars, parseVars, driverVars>>

\* SmartCache::evict_expired: now is read before the write lock is taken
EvictExpired(lag) ==
    /\ lag <= now
    /\ cache' = SelectSeq(cache, LAMBDA e : ~Expired(e, now - lag))
    /\ lastOp' = [op |-> "evict", key |-> 0, ret |-> Absent, at |-> now - lag,
                  n |-> Len(cache) - Len(cache')]
    /\ run' = <<>>
    /\ UNCHANGED now
    /\ UNCHANGED <<storeVars, parseVars, driverVars>>

\* time passes
Tick ==
    /\ now < MaxTime
    /\ now' = now + 1
    /\ lastOp' = [NoOp EXCEPT !.op = "tick"]
    /\ UNCHANGED <<cache, run>>
    /\ UNCHANGED <<storeVars, parseVars, driverVars>>

InitCache ==
    InitTables /\ file = NoFile /\ InitCacheIdle /\ InitParseIdle /\ InitDriversIdle

NextCache ==
    \/ \E k \in Keys, lag \in 0 .. MaxLag : Insert(k, ValueOf(k), lag)
    \/ \E k \in Keys : Get(k)
    \/ \E lag \in 0 .. MaxLag : EvictExpired(lag)
    \/ Tick

SpecCache == InitCache /\ [][NextCache]_vars

(***************************************************************************)
(* Claims on SmartCache                                                    *)
(***************************************************************************)
\* the run holds Capacity + 1 consecutive inserts of pairwise distinct keys
DistinctRun ==
    /\ Len(run) = Capacity + 1
    /\ \A i, j \in 1..Len(run) : run[i].key = run[j].key => i = j

C9_EvictExpiredKeepsLive ==
    [][lastOp'.op = "evict" =>
          /\ \A i \in 1..Len(cache) :
                cache[i].expires_at > lastOp'.at =>
                   \E j \in 1..Len(cache') : cache'[j] = cache[i]
          /\ \A j \in 1..Len(cache') : cache'[j].expires_at > lastOp'.at]_vars

\* evict_expired has removed an entry and kept another
C9_Witness == lastOp.op = "evict" /\ lastOp.n >= 1 /\ cache # <<>>

\* C10: get returns the stored value exactly when the cache holds an entry
\* for the key whose expires_at is strictly after the clock; a get that
\* finds an expired entry returns absent and removes it, which frees its
\* slot.
C10_GetServesOnlyUnexpired ==
    [][lastOp'.op = "get" =>
          LET k == lastOp'.key
              held == k \in CacheKeys(cache)
              live == held /\ Entry(cache, k).expires_at > now
          IN  /\ live => lastOp'.ret = Entry(cache, k).value
              /\ ~live => lastOp'.ret = Absent
              /\ (held /\ ~live) =>
                    /\ k \notin CacheKeys(cache')
                    /\ Len(cache') = Len(cache) - 1]_vars

\* a get has found an expired entry and removed it from a full cache
C10_Witness ==
    /\ lastOp.op = "get"
    /\ lastOp.ret = Absent
    /\ lastOp.n = 1
    /\ Len(cache) = Capacity - 1

(***************************************************************************)
(* SpecScript: one caller of a SmartCache running the TTL-and-LRU scenario *)
(* insert Capacity + 1 pairs, read the first key, read the second key,     *)
(* sleep two TTLs, read the last key inserted, insert one more pair, read  *)
(* the second key again.  TTL ticks of the clock make the scenario's TTL;  *)
(* the calls before the sleep complete in less than one TTL.               *)
(***************************************************************************)
\* the keys of the scenario: one more than the inserts before the sleep
ScriptKeys == 1 .. Capacity + 2

\* the orders in which the scenario can name its keys
ScriptKeyOrders ==
    {ks \in [1 .. Capacity + 2 -> ScriptKeys] : \A i, j \in 1 .. Capacity + 2 :
                                                    ks[i] = ks[j] => i = j}

\* the i-th pair of the scenario is (keys[i], i)
ScriptInsert(i, lag, pc) ==
    /\ SmartCacheInsert(script.keys[i], ValueOf(i), lag)
    /\ script' = [script EXCEPT !.pc = pc]
    /\ UNCHANGED scriptFrame

ScriptRead(i, pc) ==
    /\ SmartCacheGet(script.keys[i])
    /\ script' = [script EXCEPT !.pc = pc, !.reads = Append(@, lastOp'.ret)]
    /\ UNCHANGED scriptFrame

\* insert (a,1), (b,2), (c,3)
ScriptFill ==
    /\ script.pc \in 1 .. Capacity + 1
    /\ \E lag \in 0 .. MaxLag : ScriptInsert(script.pc, lag, script.pc + 1)

\* read a
ScriptReadFirst ==
    /\ script.pc = Capacity + 2
    /\ ScriptRead(1, script.pc + 1)

\* read b
ScriptReadSecond ==
    /\ script.pc = Capacity + 3
    /\ ScriptRead(2, script.pc + 1)

\* the clock advances while the calls before the sleep are made
ScriptTick ==
    /\ script.pc \in 1 .. Capacity + 4
    /\ now < TTL - 1
    /\ now' = now + 1
    /\ UNCHANGED <<cache, lastOp, run, script>>
    /\ UNCHANGED scriptFrame

\* sleep 2 s
ScriptSleep ==
    /\ script.pc = Capacity + 4
    /\ now' = now + 2 * TTL
    /\ script' = [script EXCEPT !.pc = @ + 1]
    /\ UNCHANGED <<cache, lastOp, run>>
    /\ UNCHANGED scriptFrame

\* read c
ScriptReadLast ==
    /\ script.pc = Capacity + 5
    /\ ScriptRead(Capacity + 1, script.pc + 1)

\* insert (d,4)
ScriptInsertNew ==
    /\ script.pc = Capacity + 6
    /\ \E lag \in 0 .. MaxLag : ScriptInsert(Capacity + 2, lag, script.pc + 1)

\* read b
ScriptReadSecondAgain ==
    /\ script.pc = Capacity + 7
    /\ ScriptRead(2, script.pc + 1)

ScriptDone == script.pc = Capacity + 8

InitScript ==
    /\ InitTables /\ file = NoFile /\ InitCacheIdle /\ InitParseIdle
    /\ search = NoSearch /\ pimp = NoImport
    /\ conv_cache = <<>> /\ tasks = NoTasks
    /\ \E ks \in ScriptKeyOrders : script = [pc |-> 1, keys |-> ks, reads |-> <<>>]

NextScript ==
    \/ ScriptFill
    \/ ScriptReadFirst
    \/ ScriptReadSecond
    \/ ScriptTick
    \/ ScriptSleep
    \/ ScriptReadLast
    \/ ScriptInsertNew
    \/ ScriptReadSecondAgain

SpecScript == InitScript /\ [][NextScript]_vars

\* C11: in a cache of capacity Capacity (2) and TTL one second, the sequence
\* insert(a,1), insert(b,2), insert(c,3), get(a), get(b), two seconds pass,
\* get(c), insert(d,4), get(b) makes the four reads return absent, 2, absent,
\* absent in that order.
C11_ScenarioReads ==
    /\ Len(script.reads) >= 1 => script.reads[1] = Absent
    /\ Len(script.reads) >= 2 => script.reads[2] = ValueOf(2)
    /\ Len(script.reads) >= 3 => script.reads[3] = Absent
    /\ Len(script.reads) >= 4 => script.reads[4] = Absent

\* the scenario has run to its end, with the clock having advanced before
\* the sleep
C11_Witness ==
    /\ ScriptDone
    /\ Len(script.reads) = 4
    /\ now = 3 * TTL - 1

(***************************************************************************)
(* SpecSearch: EnhancedSearch::incremental_search over a SearchCache       *)
(* (src/backend/src/search_enhanced.rs, src/backend/src/cache.rs)          *)
(***************************************************************************)
\* number of incremental_search calls in one behaviour
MaxSearches == 2
\* the largest limit a caller passes
MaxLimit == 2

\* bytes of a character in UTF-8
Utf8Len(ch) == IF ch \in {"é", "É"} THEN 2 ELSE 1

\* str::len: the length in bytes
RECURSIVE ByteLen(_)
ByteLen(q) == IF q = <<>> THEN 0 ELSE Utf8Len(Head(q)) + ByteLen(Tail(q))

\* char::to_lowercase
LowerChar(ch) ==
    CASE ch = "A" -> "a"
      [] ch = "B" -> "b"
      [] ch = "R" -> "r"
      [] ch = "É" -> "é"
      [] OTHER    -> ch

\* str::to_lowercase
to_lowercase(q) == [i \in 1 .. Len(q) |-> LowerChar(q[i])]

\* LIKE folds the case of ASCII letters only
AsciiLower(ch) ==
    CASE ch = "A" -> "a"
      [] ch = "B" -> "b"
      [] ch = "R" -> "r"
      [] OTHER    -> ch

\* text LIKE 'q%'
LikePrefix(text, q) ==
    /\ Len(q) <= Len(text)
    /\ \A i \in 1 .. Len(q) : AsciiLower(q[i]) = AsciiLower(text[i])

\* messages_fts MATCH q on a one-token document: the tokenizer folds case
FtsMatch(text, q) == q # <<>> /\ to_lowercase(text) = to_lowercase(q)

\* the queries callers type
SearchQueries ==
    {<<>>, <<"a">>, <<"A">>, <<"a", "b">>, <<"é", "a">>, <<"A", "B", "c">>}

\* a limit of the query string: any i32, negative ones included
Limits == {0 - 1} \cup (1 .. MaxLimit)

\* the archive the searches run on
SearchConversations ==
    {[id |-> 1, title |-> <<"a", "b", "c">>],
     [id |-> 2, title |-> <<"A", "b">>],
     [id |-> 3, title |-> <<"b">>]}
SearchMessages ==
    {[id |-> 1, conversation_id |-> 1, content |-> <<"a", "b", "c">>],
     [id |-> 2, conversation_id |-> 2, content |-> <<"A", "B", "C">>],
     [id |-> 3, conversation_id |-> 3, content |-> <<"a", "b">>]}
SearchFts == {[rowid |-> m.id, conversation_id |-> m.conversation_id,
               content |-> m.content] : m \in SearchMessages}

\* ORDER BY: the rows of S in the order Before, which is total on S
OrderBy(S, Before(_, _)) ==
    [i \in 1 .. Cardinality(S) |->
        CHOOSE r \in S : Cardinality({o \in S : Before(o, r)}) = i - 1]

\* LIMIT n: a negative n is no limit
SqlLimit(rows, n) == IF n < 0 THEN rows ELSE SubSeq(rows, 1, Min2(n, Len(rows)))

SearchResult(c, snippet, score) ==
    [conversation_id |-> c.id, title |-> c.title, snippet |-> snippet, score |-> score]

\* EnhancedSearch::prefix_search, when the statement succeeds
prefix_search(query, limit) ==
    LET rows == {[c |-> c, m |-> m] : c \in conversations, m \in messages}
        hits == {r \in rows : /\ r.c.id = r.m.conversation_id
                              /\ \/ LikePrefix(r.c.title, query)
                                 \/ LikePrefix(r.m.content, query)}
        Rank(r) == IF LikePrefix(r.c.title, query) THEN 0 ELSE 1
        Before(r, o) == \/ Rank(r) < Rank(o)
                        \/ Rank(r) = Rank(o) /\ r.c.id > o.c.id
                        \/ Rank(r) = Rank(o) /\ r.c.id = o.c.id /\ r.m.id < o.m.id
        ordered == OrderBy(hits, Before)
        all == [i \in 1 .. Len(ordered) |->
                   SearchResult(ordered[i].c, ordered[i].m.content, 1)]
        \* SELECT DISTINCT: one row per (id, title, snippet, score)
        keep == {i \in 1 .. Len(all) : \A j \in 1 .. i - 1 : all[j] # all[i]}
        distinct == [k \in 1 .. Cardinality(keep) |->
                        all[CHOOSE i \in keep :
                               Cardinality({j \in keep : j < i}) = k - 1]]
    IN  SqlLimit(distinct, limit)

\* EnhancedSearch::fts_search, when the statement succeeds
fts_search(query, limit) ==
    LET rows == {[c |-> c, m |-> f] : c \in conversations, f \in messages_fts}
        hits == {r \in rows : /\ r.c.id = r.m.conversation_id
                              /\ FtsMatch(r.m.content, query)}
        Before(r, o) == r.m.rowid < o.m.rowid
        ordered == OrderBy(hits, Before)
    IN  SqlLimit([i \in 1 .. Len(ordered) |->
                     SearchResult(ordered[i].c, ordered[i].m.content, 1)], limit)

\* mutant of UsesPrefix: queries of three bytes take the prefix path too
UsesPrefixUpToThree(query) == ByteLen(query) <= 3

\* query.len() < 3
UsesPrefix(query) == ByteLen(query) < 3

\* the store query incremental_search runs on a miss, and its outcome
StoreSearch(query, limit, fails) ==
    LET path == IF UsesPrefix(query) THEN "prefix" ELSE "fts"
    IN  [ran     |-> <<path>>,
         ok      |-> ~fails,
         results |-> IF fails THEN <<>>
                     ELSE IF path = "prefix" THEN prefix_search(query, limit)
                     ELSE fts_search(query, limit)]

\* SmartCache::get as a function of the cache: the entries it leaves
CacheAfterGet(c, k, t) ==
    IF k \notin CacheKeys(c) THEN c
    ELSE IF Fresh(Entry(c, k), t) THEN LruGetMut(c, k)
    ELSE LruPop(c, k)

\* mutant of cache_results: an entry already cached for the key is kept
cache_results_keeps_first(c, query, results, t) ==
    LET k == to_lowercase(query)
    IN  IF k \in CacheKeys(c) THEN c
        ELSE LruPut(c, k, [key |-> k, value |-> results, expires_at |-> t + TTL])

\* SearchCache::cache_results
cache_results(c, query, results, t) ==
    LET k == to_lowercase(query)
    IN  LruPut(c, k, [key |-> k, value |-> results, expires_at |-> t + TTL])

\* mutant of AfterStoreSearch: a failed search caches an empty result list
AfterStoreSearchCachesErrors(c, query, out, t) == cache_results(c, query, out.results, t)

\* the ? on the store query returns before cache_results is reached
AfterStoreSearch(c, query, out, t) ==
    IF out.ok THEN cache_results(c, query, out.results, t) ELSE c

\* incremental_search(conn, query, limit); fails says whether the store
\* query, if one is run, fails
IncrementalSearch(query, limit, fails) ==
    /\ search.n < MaxSearches
    /\ LET k      == to_lowercase(query)
           hit    == k \in CacheKeys(cache) /\ Fresh(Entry(cache, k), now)
           c1     == CacheAfterGet(cache, k, now)
           out    == StoreSearch(query, limit, fails)
       IN  IF hit
           THEN /\ cache' = c1
                /\ search' = [n |-> search.n + 1, query |-> query, limit |-> limit,
                              ret |-> "hit", ran |-> <<>>,
                              results |-> Entry(cache, k).value]
           ELSE /\ cache' = AfterStoreSearch(c1, query, out, now)
                /\ search' = [n |-> search.n + 1, query |-> query, limit |-> limit,
                              ret |-> IF out.ok THEN "ok" ELSE "err",
                              ran |-> out.ran, results |-> out.results]
    /\ UNCHANGED <<now, lastOp, run>>
    /\ UNCHANGED <<storeVars, parseVars, script, pimp, taskVars>>

InitSearch ==
    /\ conversations = SearchConversations
    /\ messages = SearchMessages
    /\ messages_fts = SearchFts
    /\ import_events = {} /\ imp = IdleImp /\ nCalls = 0 /\ prev = NoPrev
    /\ lastBatch = NoBatch /\ file = NoFile
    /\ InitCacheIdle /\ InitParseIdle /\ InitDriversIdle

\* time passes between searches, until every entry cached at the start has
\* expired
SearchTick ==
    /\ now < TTL + 1
    /\ now' = now + 1
    /\ UNCHANGED <<cache, lastOp, run>>
    /\ UNCHANGED <<storeVars, parseVars, driverVars>>

\* cache_maintenance_task: evict_expired on the search cache
CacheMaintenance ==
    /\ \E i \in 1 .. Len(cache) : Expired(cache[i], now)
    /\ cache' = SelectSeq(cache, LAMBDA e : ~Expired(e, now))
    /\ UNCHANGED <<now, lastOp, run>>
    /\ UNCHANGED <<storeVars, parseVars, driverVars>>

NextSearch ==
    \/ \E query \in SearchQueries, limit \in Limits, fails \in BOOLEAN :
          IncrementalSearch(query, limit, fails)
    \/ SearchTick
    \/ CacheMaintenance

SpecSearch == InitSearch /\ [][NextSearch]_vars

(***************************************************************************)
(* Claims on incremental_search                                            *)
(***************************************************************************)
\* C12: on a cache miss incremental_search runs exactly one store query:
\* the prefix (LIKE) query when the query string has length 0, 1 or 2
\* (str::len, the length in bytes) and the full-text (MATCH) query when it
\* has length 3 or more.
C12_PathByLength ==
    search.ret \in {"ok", "err"} =>
        /\ ByteLen(search.query) \in {0, 1, 2} => search.ran = <<"prefix">>
        /\ ByteLen(search.query) >= 3 => search.ran = <<"fts">>

\* both paths have been taken on a miss: a two-character query of three
\* bytes has gone to the full-text query
C12_Witness ==
    /\ search.ret = "ok"
    /\ search.query = <<"é", "a">>
    /\ search.ran = <<"fts">>
    /\ search.n = 2
    /\ \E i \in 1 .. Len(cache) : cache[i].key = <<"a", "b">>

\* C13: if the store query of incremental_search fails, the error is
\* returned and no entry is inserted or replaced in the search cache: the
\* cache holds what it held before the call, less the expired entry of the
\* query's key that the lookup removed, and the next call with the same
\* query goes to the store again.
C13_ErrorsNotCached ==
    [][/\ (search'.n # search.n /\ search'.ret = "err") =>
             /\ cache' = LruPop(cache, to_lowercase(search'.query))
             /\ to_lowercase(search'.query) \notin CacheKeys(cache')
       /\ (search.ret = "err" /\ search'.n # search.n
              /\ to_lowercase(search'.query) = to_lowercase(search.query)) =>
             search'.ret # "hit"]_vars

\* a second search has failed, at a time when an entry cached at the start
\* would have expired, while the cache held another query's fresh results
C13_Witness ==
    /\ search.n = 2
    /\ search.ret = "err"
    /\ Len(cache) = 1
    /\ cache[1].key # to_lowercase(search.query)
    /\ Fresh(cache[1], now)
    /\ now >= TTL

\* C14: the list incremental_search(query, limit) returns has at most limit
\* results, in any sequence of searches.
C14_AtMostLimit ==
    search.ret \in {"hit", "ok"} => Len(search.results) <= search.limit

(***************************************************************************)
(* SpecParse: the backend parsers (src/backend/src/parsers)                *)
(***************************************************************************)
\* timestamps of the export, in microseconds
MaxTs == 2
\* nodes of a ChatGPT mapping, messages of a message array
MaxNodes == 3

\* a timestamp the source does not carry
NoTs == 0 - 1

TsValues == 1 .. MaxTs
\* Utc::now() while the file is parsed, later than the export's timestamps
NowTs == MaxTs + 1

\* a source message: the role string, the timestamp (NoTs when the source
\* has none) and the text
SrcMsgs ==
    { [role |-> "user", ts |-> 1, text |-> "x"],
      [role |-> "user", ts |-> 2, text |-> "x"],
      [role |-> "system", ts |-> 2, text |-> "x"],
      [role |-> "user", ts |-> NoTs, text |-> "x"],
      [role |-> "user", ts |-> 2, text |-> ""],
      [role |-> "critic", ts |-> 1, text |-> "x"] }

\* a mapping node without "message"
NoMessage == [role |-> Null, ts |-> NoTs, text |-> Null]

NodeIds == 1 .. MaxNodes

\* a mapping is a function from node ids to [parent, message]; parent 0 is
\* null.  The children of a node are the nodes that name it as parent.
Mappings == [NodeIds -> [parent : 0 .. MaxNodes, message : SrcMsgs \cup {NoMessage}]]

HeaderTimes == TsValues \cup {NoTs}

\* the conversation objects the parsers are given: create_time/update_time
\* (created_at/updated_at for Claude) may be missing
Docs ==
    [provider : {"chatgpt", "claude"}, form : {"messages"}, create_time : HeaderTimes,
     update_time : HeaderTimes, mapping : {<<>>}, messages : SeqsUpTo(SrcMsgs, MaxNodes)]
    \cup
    [provider : {"chatgpt"}, form : {"mapping"}, create_time : HeaderTimes,
     update_time : HeaderTimes, mapping : Mappings, messages : {<<>>}]
    \cup
    [provider : {"chatgpt", "claude"}, form : {"none"}, create_time : HeaderTimes,
     update_time : HeaderTimes, mapping : {<<>>}, messages : {<<>>}]

\* the elements of a set of numbers in increasing order
RECURSIVE Ascending(_)
Ascending(S) ==
    IF S = {} THEN <<>>
    ELSE LET m == CHOOSE x \in S : \A y \in S : x <= y
         IN  <<m>> \o Ascending(S \ {m})

\* MessageRole::from_provider_role
from_provider_role(role, provider) ==
    LET r == ToLower(role)
    IN  CASE provider = "chatgpt" ->
                IF r \in {"user", "assistant", "system", "tool"} THEN r ELSE Null
          [] provider = "claude" ->
                IF r \in {"human", "user"} THEN "user"
                ELSE IF r \in {"assistant", "model"} THEN "assistant"
                ELSE IF r = "system" THEN "system" ELSE Null
          [] OTHER -> Null

\* ChatGPTProvider::parse_message: <<>> when the message is skipped (an
\* unknown role is an error the callers drop, an empty text is Ok(None))
ChatGPTMessage(m, default_timestamp) ==
    IF m = NoMessage THEN <<>>
    ELSE LET role == from_provider_role(m.role, "chatgpt")
         IN  IF role = Null \/ m.text = "" THEN <<>>
             ELSE <<[role |-> role,
                     timestamp |-> IF m.ts # NoTs THEN m.ts ELSE default_timestamp]>>

\* the children of a node, in the order of the mapping
Children(mapping, n) == Ascending({c \in NodeIds : mapping[c].parent = n})

\* find_root_node: the first node whose parent is null; otherwise the node
\* whose message has the earliest create_time; 0 when there is none
find_root_node(mapping) ==
    LET roots == {n \in NodeIds : mapping[n].parent = 0}
        timed == {n \in NodeIds : mapping[n].message # NoMessage
                                     /\ mapping[n].message.ts # NoTs}
    IN  IF roots # {} THEN Head(Ascending(roots))
        ELSE IF timed = {} THEN 0
        ELSE Head(Ascending({n \in timed :
                    \A o \in timed : mapping[n].message.ts <= mapping[o].message.ts}))

\* traverse_message_tree: depth first from the root, children in order, each
\* node once; stack holds the nodes still to enter
RECURSIVE traverse_message_tree(_, _, _, _)
traverse_message_tree(mapping, stack, visited, default_timestamp) ==
    IF stack = <<>> THEN <<>>
    ELSE LET n == Head(stack)
         IN  IF n \in visited
             THEN traverse_message_tree(mapping, Tail(stack), visited, default_timestamp)
             ELSE ChatGPTMessage(mapping[n].message, default_timestamp)
                  \o traverse_message_tree(mapping, Children(mapping, n) \o Tail(stack),
                                           visited \cup {n}, default_timestamp)

\* insertion of m after the messages that are not later than it
RECURSIVE InsertByTimestamp(_, _)
InsertByTimestamp(sorted, m) ==
    IF sorted = <<>> THEN <<m>>
    ELSE IF Head(sorted).timestamp <= m.timestamp
         THEN <<Head(sorted)>> \o InsertByTimestamp(Tail(sorted), m)
         ELSE <<m>> \o sorted

\* messages.sort_by_key(|m| m.timestamp), a stable sort
RECURSIVE sort_by_key(_)
sort_by_key(msgs) ==
    IF msgs = <<>> THEN <<>>
    ELSE InsertByTimestamp(sort_by_key(SubSeq(msgs, 1, Len(msgs) - 1)), msgs[Len(msgs)])

\* messages.remove(0) when the first message has role system
LiftSystemPrompt(msgs) ==
    IF msgs # <<>> /\ Head(msgs).role = "system" THEN Tail(msgs) ELSE msgs

HasSystemPrompt(msgs) == msgs # <<>> /\ Head(msgs).role = "system"

NoConversation == [kind |-> "none"]

ParseError == [kind |-> "error"]

Conversation(msgs, system_prompt, start_time, end_time) ==
    [kind |-> "conversation", messages |-> msgs, system_prompt |-> system_prompt,
     start_time |-> start_time, end_time |-> end_time]

\* a header time, or the fallback when the field is missing
OrElse(t, fallback) == IF t # NoTs THEN t ELSE fallback

\* timestamp of the first (last) message, or the fallback for no message
FirstTs(msgs, fallback) == IF msgs # <<>> THEN msgs[1].timestamp ELSE fallback

LastTs(msgs, fallback) == IF msgs # <<>> THEN msgs[Len(msgs)].timestamp ELSE fallback

extract_from_mapping_format(doc) ==
    LET create_time == OrElse(doc.create_time, NowTs)
        update_time == OrElse(doc.update_time, create_time)
        root == find_root_node(doc.mapping)
        found == traverse_message_tree(doc.mapping, <<root>>, {}, create_time)
        sorted == sort_by_key(found)
        msgs == LiftSystemPrompt(sorted)
    IN  IF root = 0 THEN ParseError
        ELSE IF found = <<>> THEN NoConversation
        ELSE Conversation(msgs, HasSystemPrompt(sorted),
                          FirstTs(msgs, create_time), LastTs(msgs, update_time))

\* the messages of a message array that parse_message keeps, in array order
RECURSIVE ArrayMessages(_, _)
ArrayMessages(arr, default_timestamp) ==
    IF arr = <<>> THEN <<>>
    ELSE ChatGPTMessage(Head(arr), default_timestamp)
         \o ArrayMessages(Tail(arr), default_timestamp)

extract_from_message_array_format(doc) ==
    LET create_time == OrElse(doc.create_time, NowTs)
        found == ArrayMessages(doc.messages, create_time)
        msgs == LiftSystemPrompt(found)
        start_time == FirstTs(msgs, create_time)
    IN  IF found = <<>> THEN NoConversation
        ELSE Conversation(msgs, HasSystemPrompt(found), start_time,
                          LastTs(msgs, start_time))

\* the message loop of the Claude parser: a message without timestamp gets
\* last_timestamp plus one microsecond; a message with an unknown sender is
\* passed over, one without text sets last_timestamp and is not kept
RECURSIVE ClaudeMessages(_, _)
ClaudeMessages(arr, last_timestamp) ==
    IF arr = <<>> THEN <<>>
    ELSE LET m == Head(arr)
             role == from_provider_role(m.role, "claude")
             timestamp == IF m.ts # NoTs THEN m.ts ELSE last_timestamp + 1
         IN  IF role = Null THEN ClaudeMessages(Tail(arr), last_timestamp)
             ELSE (IF m.text = "" THEN <<>> ELSE <<[role |-> role, timestamp |-> timestamp]>>)
                  \o ClaudeMessages(Tail(arr), timestamp)

\* ClaudeProvider::extract_single_conversation
claude_extract_single_conversation(doc) ==
    LET created_at == OrElse(doc.create_time, NowTs)
        updated_at == OrElse(doc.update_time, created_at)
        found == ClaudeMessages(doc.messages, created_at)
        msgs == LiftSystemPrompt(found)
    IN  IF doc.form = "none" \/ found = <<>> THEN NoConversation
        ELSE Conversation(msgs, HasSystemPrompt(found),
                          Min2(FirstTs(msgs, created_at), created_at),
                          Max2(LastTs(msgs, updated_at), updated_at))

\* ChatGPTProvider::extract_single_conversation
chatgpt_extract_single_conversation(doc) ==
    CASE doc.form = "mapping"  -> extract_from_mapping_format(doc)
      [] doc.form = "messages" -> extract_from_message_array_format(doc)
      [] OTHER                 -> NoConversation

\* the ChatGPT parser is run on the document
ChatGPTExtract ==
    /\ pin.provider = "chatgpt"
    /\ pout = NoOut
    /\ pout' = chatgpt_extract_single_conversation(pin)
    /\ UNCHANGED pin
    /\ UNCHANGED <<storeVars, cacheVars, driverVars>>

\* the Claude parser is run on the document
ClaudeExtract ==
    /\ pin.provider = "claude"
    /\ pout = NoOut
    /\ pout' = claude_extract_single_conversation(pin)
    /\ UNCHANGED pin
    /\ UNCHANGED <<storeVars, cacheVars, driverVars>>

InitParse ==
    /\ InitTables /\ file = NoFile /\ InitCacheIdle /\ InitDriversIdle
    /\ pin \in Docs
    /\ pout = NoOut

NextParse == ChatGPTExtract \/ ClaudeExtract

SpecParse == InitParse /\ [][NextParse]_vars

\* C6: every Conversation a parser returns (ChatGPT mapping form, ChatGPT
\* message-array form, Claude) has its messages in non-decreasing timestamp
\* order, start_time <= end_time, start_time <= the first message's
\* timestamp and end_time >= the last message's timestamp.
C6_ConversationTimesOrdered ==
    pout.kind = "conversation" =>
        /\ \A i, j \in 1..Len(pout.messages) :
              i <= j => pout.messages[i].timestamp <= pout.messages[j].timestamp
        /\ pout.start_time <= pout.end_time
        /\ pout.messages # <<>> =>
              /\ pout.start_time <= pout.messages[1].timestamp
              /\ pout.end_time >= pout.messages[Len(pout.messages)].timestamp

\* C20: no conversation with an empty message list is returned by a parser:
\* a source conversation that has no message left after filtering (unknown
\* roles, empty content, the leading system message lifted into
\* system_prompt) is skipped, which the caller counts as a warning.
C20_NoEmptyConversation ==
    pout.kind = "conversation" => pout.messages # <<>>

(***************************************************************************)
(* SpecDsl: SearchDSL::parse (src/backend/src/search_enhanced.rs)          *)
(***************************************************************************)
\* whitespace-separated parts of one DSL query
MaxParts == 2

\* the text of a date: its parts between the '-' signs, all of them numbers
DateTexts ==
    {<<1970, 1, 1>>, <<1971, 3, 1>>, <<2024, 1, 1>>, <<2024, 2, 29>>,
     <<2024, 12, 31>>, <<2024, 1>>}

\* a part without ':' has key Null; split_once(':') gives key and value
DslParts ==
    {[key |-> Null, value |-> "backup"],
     [key |-> "provider", value |-> "claude"],
     [key |-> "role", value |-> "user"],
     [key |-> "tag", value |-> "x"]}
    \cup {[key |-> k, value |-> d] : k \in {"after", "before"}, d \in DateTexts}

\* 'backup provider:claude role:user after:2024-01-01'
ExampleQuery ==
    <<[key |-> Null, value |-> "backup"], [key |-> "provider", value |-> "claude"],
      [key |-> "role", value |-> "user"], [key |-> "after", value |-> <<2024, 1, 1>>]>>

DslQueries == SeqsUpTo(DslParts, MaxParts) \cup {ExampleQuery}

\* parse_date: Ok(timestamp) for three parts, Err otherwise (NoTs)
parse_date(d) ==
    IF Len(d) = 3
    THEN ((d[1] - 1970) * 365 * 24 * 60 * 60)
         + ((d[2] - 1) * 30 * 24 * 60 * 60)
         + ((d[3] - 1) * 24 * 60 * 60)
    ELSE NoTs

\* SearchDSL::default(); text is the list of free-text parts, joined with
\* spaces when it is not empty
DefaultDsl ==
    [text |-> <<>>, provider |-> Null, role |-> Null, after_timestamp |-> NoTs,
     before_timestamp |-> NoTs, limit |-> NoTs]

\* the loop body of SearchDSL::parse
ParsePart(dsl, part) ==
    CASE part.key = "provider" -> [dsl EXCEPT !.provider = part.value]
      [] part.key = "role"     -> [dsl EXCEPT !.role = part.value]
      [] part.key = "after"    ->
            IF parse_date(part.value) # NoTs
            THEN [dsl EXCEPT !.after_timestamp = parse_date(part.value)] ELSE dsl
      [] part.key = "before"   ->
            IF parse_date(part.value) # NoTs
            THEN [dsl EXCEPT !.before_timestamp = parse_date(part.value)] ELSE dsl
      [] OTHER                 -> [dsl EXCEPT !.text = Append(@, part)]

RECURSIVE ParseParts(_, _)
ParseParts(dsl, parts) ==
    IF parts = <<>> THEN dsl ELSE ParseParts(ParsePart(dsl, Head(parts)), Tail(parts))

\* SearchDSL::parse
SearchDSL_parse(query) == ParseParts(DefaultDsl, query)

DslParse ==
    /\ pout = NoOut
    /\ pout' = [kind |-> "dsl", dsl |-> SearchDSL_parse(pin)]
    /\ UNCHANGED pin
    /\ UNCHANGED <<storeVars, cacheVars, driverVars>>

InitDsl ==
    /\ InitTables /\ file = NoFile /\ InitCacheIdle /\ InitDriversIdle
    /\ pin \in DslQueries
    /\ pout = NoOut

NextDsl == DslParse

SpecDsl == InitDsl /\ [][NextDsl]_vars

\* days from 1970-01-01 to the date y-m-d of the proleptic Gregorian calendar
DaysFromCivil(y, m, d) ==
    LET yy  == IF m <= 2 THEN y - 1 ELSE y
        era == yy \div 400
        yoe == yy - era * 400
        mp  == IF m > 2 THEN m - 3 ELSE m + 9
        doy == (153 * mp + 2) \div 5 + d - 1
        doe == yoe * 365 + yoe \div 4 - yoe \div 100 + doy
    IN  era * 146097 + doe - 719468

\* Unix epoch seconds of the date at 00:00:00 UTC
EpochSeconds(d) == DaysFromCivil(d[1], d[2], d[3]) * 86400

\* the dates of the parts of the query with key k, in order
DatesOf(query, k) ==
    LET ps == SelectSeq(query, LAMBDA p : p.key = k)
    IN  [i \in 1 .. Len(ps) |-> ps[i].value]

\* C15: for every date D written YYYY-MM-DD, SearchDSL::parse of a query
\* containing after:D (before:D) sets after_timestamp (before_timestamp) to
\* the Unix epoch seconds of D at 00:00:00 UTC; 'backup provider:claude
\* role:user after:2024-01-01' yields text backup, provider claude, role user
\* and after_timestamp 1704067200.
C15_DateIsEpochSeconds ==
    pout.kind = "dsl" =>
        /\ \A d \in DateTexts :
              (DatesOf(pin, "after") = <<d>> /\ Len(d) = 3) =>
                  pout.dsl.after_timestamp = EpochSeconds(d)
        /\ \A d \in DateTexts :
              (DatesOf(pin, "before") = <<d>> /\ Len(d) = 3) =>
                  pout.dsl.before_timestamp = EpochSeconds(d)
        /\ pin = ExampleQuery =>
              /\ pout.dsl.text = <<[key |-> Null, value |-> "backup"]>>
              /\ pout.dsl.provider = "claude"
              /\ pout.dsl.role = "user"
              /\ pout.dsl.after_timestamp = 1704067200

(***************************************************************************)
(* SpecStream: StreamingImporter::parse_streaming                          *)
(* (src/backend/src/streaming.rs).  The text of a file is a sequence of    *)
(* lines, a line a sequence of tokens: the characters '{' '}' '[' ']' ','  *)
(* and runs of other characters that hold no brace (the key                *)
(* "conversations": , another key, a member such as "id":"c1").            *)
(***************************************************************************)
\* conversation objects in the conversations array of one file
MaxConvs == 2

\* the member "id":"c<i>" of the i-th element
IdToks == <<"id1", "id2", "id3", "id4">>

\* the text of the i-th element of the array: an object with its id, one
\* with a nested object, and a malformed one (a trailing comma)
ElementText(i, kind) ==
    CASE kind = "flat"   -> <<"{", IdToks[i], "}">>
      [] kind = "nested" -> <<"{", IdToks[i], ",", "key:", "{", "}", "}">>
      [] kind = "bad"    -> <<"{", IdToks[i], ",", "}">>

ElementKinds == {"flat", "nested", "bad"}

\* one line per element, a comma after each but the last
ElementLines(kinds) ==
    [i \in 1 .. Len(kinds) |->
        ElementText(i, kinds[i]) \o (IF i < Len(kinds) THEN <<",">> ELSE <<>>)]

RECURSIVE Flatten(_)
Flatten(ls) == IF ls = <<>> THEN <<>> ELSE Head(ls) \o Flatten(Tail(ls))

\* the line layouts of { "conversations": [ e1, e2 ] }
LayoutNames == {"one_line", "key_line", "pretty", "token_per_line"}

FileLines(kinds, layout) ==
    LET els == ElementLines(kinds)
    IN  CASE layout = "one_line" ->
                <<<<"{", "conv:", "[">> \o Flatten(els) \o <<"]", "}">>>>
          [] layout = "key_line" ->
                <<<<"{", "conv:", "[">>>> \o els \o <<<<"]", "}">>>>
          [] layout = "pretty" ->
                <<<<"{">>, <<"conv:", "[">>>> \o els \o <<<<"]">>, <<"}">>>>
          [] layout = "token_per_line" ->
                LET all == <<"{", "conv:", "[">> \o Flatten(els) \o <<"]", "}">>
                IN  [i \in 1 .. Len(all) |-> <<all[i]>>]

\* the export files: the lines on disk, and the array elements they hold
ExportFiles ==
    {[kind |-> "export", kinds |-> ks, lines |-> FileLines(ks, l)] :
        ks \in SeqsUpTo(ElementKinds, MaxConvs), l \in LayoutNames}

\* serde_json::from_str::<Value> on a text of these tokens: the position
\* after the value that starts at i, 0 if there is none
RECURSIVE JsonValue(_, _), JsonMembers(_, _), JsonElements(_, _)
JsonValue(t, i) ==
    IF i + 1 > Len(t) THEN 0
    ELSE IF t[i] = "{"
    THEN IF t[i + 1] = "}" THEN i + 2
         ELSE LET j == JsonMembers(t, i + 1)
              IN  IF j # 0 /\ j <= Len(t) /\ t[j] = "}" THEN j + 1 ELSE 0
    ELSE IF t[i] = "["
    THEN IF t[i + 1] = "]" THEN i + 2
         ELSE LET j == JsonElements(t, i + 1)
              IN  IF j # 0 /\ j <= Len(t) /\ t[j] = "]" THEN j + 1 ELSE 0
    ELSE 0

JsonMembers(t, i) ==
    LET j == IF i > Len(t) THEN 0
             ELSE IF t[i] \in {"conv:", "key:"} THEN JsonValue(t, i + 1)
             ELSE IF t[i] \in {"{", "}", "[", "]", ",", "\n"} THEN 0
             ELSE i + 1
    IN  IF j # 0 /\ j <= Len(t) /\ t[j] = "," THEN JsonMembers(t, j + 1) ELSE j

JsonElements(t, i) ==
    LET j == JsonValue(t, i)
    IN  IF j # 0 /\ j <= Len(t) /\ t[j] = "," THEN JsonElements(t, j + 1) ELSE j

\* the text without its whitespace
Trim(text) == SelectSeq(text, LAMBDA ch : ch # "\n")

\* from_str succeeds: the whole text is one JSON value
IsJson(text) == JsonValue(Trim(text), 1) = Len(Trim(text)) + 1

\* the scanner state of parse_streaming; items is what the stream has
\* yielded, next the line read_line returns next
NewStream ==
    [kind |-> "stream", next |-> 1, in_conversations |-> FALSE, brace_count |-> 0,
     current_conv |-> <<>>, items |-> <<>>, done |-> FALSE]

\* parse_conversation never fails: the item is built from the text parsed
OkItem(text) == [ok |-> TRUE, text |-> Trim(text)]

\* the match on one character
ScanChar(st, ch) ==
    CASE ch = "{" -> [st EXCEPT !.brace_count = @ + 1, !.current_conv = Append(@, ch)]
      [] ch = "}" ->
            LET text == Append(st.current_conv, ch)
                bc   == st.brace_count - 1
            IN  IF bc = 1 /\ Trim(text) # <<>>
                THEN [st EXCEPT !.brace_count = bc, !.current_conv = <<>>,
                                !.items = IF IsJson(text) THEN Append(@, OkItem(text))
                                          ELSE @]
                ELSE [st EXCEPT !.brace_count = bc, !.current_conv = text]
      [] OTHER    -> IF st.brace_count > 0
                     THEN [st EXCEPT !.current_conv = Append(@, ch)] ELSE st

RECURSIVE ScanChars(_, _)
ScanChars(st, chars) ==
    IF chars = <<>> THEN st ELSE ScanChars(ScanChar(st, Head(chars)), Tail(chars))

\* buffer.contains("\"conversations\"")
ContainsConversations(line) == \E i \in 1 .. Len(line) : line[i] = "conv:"

\* one turn of the loop on a line read: the line ends with its newline
ScanLine(st, line) ==
    LET inc == st.in_conversations \/ ContainsConversations(line)
        st1 == [st EXCEPT !.in_conversations = inc, !.next = @ + 1]
    IN  IF inc THEN ScanChars(st1, Append(line, "\n")) ELSE st1

\* read_line returns a line
StreamReadLine ==
    /\ pout.kind = "stream" /\ ~pout.done
    /\ pout.next <= Len(pin.lines)
    /\ pout' = ScanLine(pout, pin.lines[pout.next])
    /\ UNCHANGED pin
    /\ UNCHANGED <<storeVars, cacheVars, driverVars>>

\* read_line returns Ok(0)
StreamEof ==
    /\ pout.kind = "stream" /\ ~pout.done
    /\ pout.next > Len(pin.lines)
    /\ pout' = [pout EXCEPT !.done = TRUE]
    /\ UNCHANGED pin
    /\ UNCHANGED <<storeVars, cacheVars, driverVars>>

\* read_line returns Err: the stream yields the error and ends
StreamReadError ==
    /\ pout.kind = "stream" /\ ~pout.done
    /\ pout.next <= Len(pin.lines)
    /\ pout' = [pout EXCEPT !.done = TRUE,
                            !.items = Append(@, [ok |-> FALSE, text |-> <<>>])]
    /\ UNCHANGED pin
    /\ UNCHANGED <<storeVars, cacheVars, driverVars>>

InitStream ==
    /\ InitTables /\ file = NoFile /\ InitCacheIdle /\ InitDriversIdle
    /\ pin \in ExportFiles
    /\ pout = NewStream

NextStream == StreamReadLine \/ StreamEof \/ StreamReadError

SpecStream == InitStream /\ [][NextStream]_vars

\* the texts of the well-formed elements of the array, in file order
GoodElements(kinds) ==
    LET idx == SelectSeq([i \in 1 .. Len(kinds) |-> i], LAMBDA i : kinds[i] # "bad")
    IN  [n \in 1 .. Len(idx) |-> OkItem(ElementText(idx[n], kinds[idx[n]]))]

\* C16: for an export file whose root object has a conversations array, in
\* any line layout, with or without nested objects in a conversation, the
\* stream read to its end yields exactly one Ok conversation per well-formed
\* array element, in file order, each built from exactly that element's
\* text; a malformed element is skipped without ending the stream.
C16_OnePerElement ==
    (pout.kind = "stream" /\ pout.done /\ \A i \in 1 .. Len(pout.items) : pout.items[i].ok)
        => pout.items = GoodElements(pin.kinds)

(***************************************************************************)
(* SpecParallel: StreamingImporter::parallel_import                        *)
(* (src/backend/src/streaming.rs)                                          *)
(***************************************************************************)
\* StreamingImporter.batch_size (100), scaled down
StreamBatchSize == 2
\* items of one stream
MaxItems == 4

\* the streams: each item is Ok(conversation) or Err(message); id is the
\* item's position
Streams ==
    {[i \in 1 .. Len(ks) |-> [ok |-> ks[i] = "ok", id |-> i]] :
        ks \in SeqsUpTo({"ok", "err"}, MaxItems)}

\* the outcomes of a sink call on a batch: Ok(count) or Err(message)
SinkResults(batch) == {[ok |-> TRUE, count |-> c] : c \in 0 .. Len(batch)}
                      \cup {[ok |-> FALSE, count |-> 0]}

\* the message of the Err item i of the stream, of the failed sink call n
StreamError(i) == [src |-> "stream", n |-> i]
SinkError(n) == [src |-> "sink", n |-> n]

\* the call has begun: rest is what the stream has not yielded yet, calls
\* the batches passed to the sink so far, inflight the sink futures started
\* and not completed; accepted and failures are history: the counts the
\* sink has returned and the errors that have occurred, in order
NewImport(stream) ==
    [pc |-> "loop", stream |-> stream, rest |-> stream, pulled |-> 0, batch |-> <<>>,
     calls |-> <<>>, inflight |-> 0, stats |-> [imported |-> 0, errors |-> <<>>],
     accepted |-> 0, failures |-> <<>>, result |-> "none"]

\* mutant of CanPull: the stream is polled while a sink call is running
CanPullWhileSinkRuns(p) == p.pc \in {"loop", "sink"}

\* stream.next() is awaited at the head of the loop only
CanPull(p) == p.pc = "loop"

\* mutant of BatchIsFull: a batch is handed over one conversation late
BatchIsFullLate(batch) == Len(batch) > StreamBatchSize

\* batch.len() >= self.batch_size
BatchIsFull(batch) == Len(batch) >= StreamBatchSize

\* mutant of RecordSink: the error of a failed sink call is dropped
RecordSinkDropsError(stats, res, n) ==
    IF res.ok THEN [stats EXCEPT !.imported = @ + res.count] ELSE stats

\* the match on the sink's result, for the n-th sink call
RecordSink(stats, res, n) ==
    IF res.ok THEN [stats EXCEPT !.imported = @ + res.count]
    ELSE [stats EXCEPT !.errors = Append(@, SinkError(n))]

\* process_fn(batch) is called: the batch leaves the importer
StartSink(p, batch, pc) ==
    [p EXCEPT !.pc = pc, !.batch = <<>>, !.calls = Append(@, batch),
              !.inflight = @ + 1]

\* stream.next() returns Some(result)
PullItem ==
    /\ pimp.pc # "idle" /\ CanPull(pimp)
    /\ pimp.rest # <<>>
    /\ LET item == Head(pimp.rest)
           p1   == [pimp EXCEPT !.rest = Tail(@), !.pulled = @ + 1]
       IN  IF item.ok
           THEN LET batch == Append(pimp.batch, item.id)
                IN  IF BatchIsFull(batch)
                    THEN pimp' = StartSink(p1, batch, "sink")
                    ELSE pimp' = [p1 EXCEPT !.batch = batch]
           ELSE pimp' = [p1 EXCEPT !.stats.errors = Append(@, StreamError(item.id)),
                                   !.failures = Append(@, StreamError(item.id))]
    /\ UNCHANGED <<storeVars, cacheVars, parseVars, script, search, taskVars>>

\* stream.next() returns None: the remaining batch, if any, goes to the sink
StreamEnd ==
    /\ pimp.pc = "loop"
    /\ pimp.rest = <<>>
    /\ IF pimp.batch # <<>>
       THEN pimp' = StartSink(pimp, pimp.batch, "last_sink")
       ELSE pimp' = [pimp EXCEPT !.pc = "done", !.result = "Ok"]
    /\ UNCHANGED <<storeVars, cacheVars, parseVars, script, search, taskVars>>

\* the sink's future completes
SinkReturn(res) ==
    /\ pimp.pc \in {"sink", "last_sink"}
    /\ pimp.inflight > 0
    /\ LET n  == Len(pimp.calls)
           p1 == [pimp EXCEPT !.inflight = @ - 1,
                              !.stats = RecordSink(@, res, n),
                              !.accepted = IF res.ok THEN @ + res.count ELSE @,
                              !.failures = IF res.ok THEN @ ELSE Append(@, SinkError(n))]
       IN  IF pimp.pc = "sink"
           THEN pimp' = [p1 EXCEPT !.pc = "loop"]
           ELSE pimp' = [p1 EXCEPT !.pc = "done", !.result = "Ok"]
    /\ UNCHANGED <<storeVars, cacheVars, parseVars, script, search, taskVars>>

InitParallel ==
    /\ InitTables /\ file = NoFile /\ InitCacheIdle /\ InitParseIdle
    /\ script = NoScript /\ search = NoSearch
    /\ conv_cache = <<>> /\ tasks = NoTasks
    /\ \E stream \in Streams : pimp = NewImport(stream)

\* the sink call in flight completes with one of its outcomes
SinkCompletes ==
    /\ pimp.calls # <<>>
    /\ \E res \in SinkResults(pimp.calls[Len(pimp.calls)]) : SinkReturn(res)

NextParallel ==
    \/ PullItem
    \/ StreamEnd
    \/ SinkCompletes

SpecParallel == InitParallel /\ [][NextParallel]_vars

(***************************************************************************)
(* Claims on parallel_import                                               *)
(***************************************************************************)
\* the conversations among the first n items of the stream, in order
OkItems(stream, n) ==
    LET idx == SelectSeq([i \in 1 .. n |-> i], LAMBDA i : stream[i].ok)
    IN  [k \in 1 .. Len(idx) |-> stream[idx[k]].id]

\* C17: parallel_import passes every conversation the stream yields as Ok
\* to the sink exactly once and in stream order; every sink call except the
\* last receives exactly StreamBatchSize conversations, the last between 1
\* and StreamBatchSize, and the sink is never called with an empty batch.
C17_BatchesInOrder ==
    /\ Flatten(pimp.calls) \o pimp.batch = OkItems(pimp.stream, pimp.pulled)
    /\ \A i \in 1 .. Len(pimp.calls) :
          /\ Len(pimp.calls[i]) \in 1 .. StreamBatchSize
          /\ i < Len(pimp.calls) => Len(pimp.calls[i]) = StreamBatchSize
    /\ pimp.pc = "done" =>
          Flatten(pimp.calls) = OkItems(pimp.stream, Len(pimp.stream))

\* the call has returned after a full batch and a shorter last batch, with
\* an Err item in the stream
C17_Witness ==
    /\ pimp.pc = "done"
    /\ Len(pimp.calls) = 2
    /\ Len(pimp.calls[2]) < StreamBatchSize
    /\ \E i \in 1 .. Len(pimp.stream) : ~pimp.stream[i].ok

\* sink calls needed for n conversations
CallsFor(n) == (n + StreamBatchSize - 1) \div StreamBatchSize

\* C18: when parallel_import returns, it returns Ok, imported is the sum of
\* the counts the successful sink calls returned, and errors holds one
\* message per Err item of the stream and per failed sink call, in order of
\* occurrence; a failed sink call does not stop the delivery of the later
\* batches and is not retried.
C18_OutcomesAccumulated ==
    pimp.pc = "done" =>
        /\ pimp.result = "Ok"
        /\ pimp.stats.imported = pimp.accepted
        /\ pimp.stats.errors = pimp.failures
        /\ Len(pimp.calls) = CallsFor(Len(OkItems(pimp.stream, Len(pimp.stream))))
        /\ pimp.rest = <<>>

\* the call has returned after the first sink call failed, a later one
\* accepted conversations, and the stream yielded an Err item
C18_Witness ==
    /\ pimp.pc = "done"
    /\ Len(pimp.calls) = 2
    /\ pimp.stats.imported > 0
    /\ SinkError(1) \in {pimp.stats.errors[i] : i \in 1 .. Len(pimp.stats.errors)}
    /\ \E i \in 1 .. Len(pimp.stats.errors) : pimp.stats.errors[i].src = "stream"

C21_ParseFailureIsolated ==
    (/\ imp.pc \in {"batch", "complete"}
     /\ imp.ptype = "chatgpt"
     /\ ~imp.bridge
     /\ file.kind = "ok")
    => /\ imp.result # "Failed to parse export JSON"
       /\ imp.stats.errors =
             Cardinality({i \in 1..Len(file.convs) :
                             ~file.convs[i].ok \/ file.convs[i].ext = Null})


\* C25: if batch k of an import fails in the store, batches 1..k-1 stay
\* committed, batch k writes nothing, no later batch is attempted,
\* import_conversations returns the error, and the import's import_events
\* record has status 'failed' together with the conversation and message
\* counts of the committed batches (a failure of the write to import_events
\* itself is left aside).
C25_FailedBatchEndsImport ==
    [][/\ (lastBatch'.seq # lastBatch.seq /\ ~lastBatch'.ok) =>
             /\ conversations' = conversations
             /\ messages' = messages
             /\ imp'.stats = imp.stats
             /\ imp'.pc = "complete"
             /\ imp'.result \notin {Null, "ok"}
       /\ (/\ imp.pc = "complete" /\ imp'.pc = "done"
           /\ ~lastBatch.ok
           /\ imp'.result # AuditWriteError) =>
             /\ imp'.result \notin {Null, "ok"}
             /\ \E e \in import_events' :
                   /\ e.id = imp.event_id
                   /\ e.status = "failed"
                   /\ e.stats = <<imp.stats.conversations, imp.stats.messages,
                                  imp.stats.errors>>]_vars

\* C26: import_events is append-only: log_import_start and
\* log_import_complete each add a new row and no existing row is ever
\* modified or deleted, so that after a finished import both the start row
\* (status 'in_progress') and a separate completion row exist.
C26_AuditLogAppendOnly ==
    [][/\ \A e \in import_events : e \in import_events'
       /\ (imp.pc = "complete" /\ imp'.pc = "done" /\ imp'.result # AuditWriteError) =>
             \E st, co \in import_events' :
                /\ st.id = imp.event_id
                /\ st.status = "in_progress"
                /\ co.id # st.id
                /\ co.status \in {"completed", "failed"}]_vars

(***************************************************************************)
(* SpecRank: EnhancedSearch::prefix_search on an archive of three titled   *)
(* conversations (src/backend/src/search_enhanced.rs)                      *)
(***************************************************************************)
\* 'Rust notes', 'Rust tips' and 'Ruby notes', inserted in that order
RankConversations ==
    {[id |-> 1, title |-> <<"R", "u", "s", "t", " ", "n", "o", "t", "e", "s">>],
     [id |-> 2, title |-> <<"R", "u", "s", "t", " ", "t", "i", "p", "s">>],
     [id |-> 3, title |-> <<"R", "u", "b", "y", " ", "n", "o", "t", "e", "s">>]}

\* what the messages of the archive say
RankContents == {<<"h", "i">>, <<"R", "u", "n">>, <<"o", "k">>}

\* the queries and limits of the calls
RankQueries == {<<"R">>, <<"R", "u">>, <<"r", "u">>, <<"R", "u", "s">>}
RankLimits == {1, 3, 10}

\* every conversation has one message, the first one may have a second
InitRank ==
    /\ conversations = RankConversations
    /\ \E cs \in [1 .. 3 -> RankContents],
          more \in {{}} \cup {{[id |-> 4, conversation_id |-> 1, content |-> c]} :
                                 c \in RankContents} :
          messages = {[id |-> i, conversation_id |-> i, content |-> cs[i]] :
                         i \in 1 .. 3} \cup more
    /\ messages_fts = {}
    /\ import_events = {} /\ imp = IdleImp /\ nCalls = 0 /\ prev = NoPrev
    /\ lastBatch = NoBatch /\ file = NoFile
    /\ InitCacheIdle /\ InitParseIdle /\ InitDriversIdle

\* one call of prefix_search whose statement succeeds
PrefixSearchCall(query, limit) ==
    /\ search.n = 0
    /\ search' = [n |-> 1, query |-> query, limit |-> limit, ret |-> "ok",
                  ran |-> <<"prefix">>, results |-> prefix_search(query, limit)]
    /\ UNCHANGED <<storeVars, cacheVars, parseVars, script, pimp, taskVars>>

NextRank == \E query \in RankQueries, limit \in RankLimits : PrefixSearchCall(query, limit)

SpecRank == InitRank /\ [][NextRank]_vars

\* C22: with the three conversations titled 'Rust notes', 'Rust tips' and
\* 'Ruby notes', each with at least one message, prefix_search for 'Ru' with
\* limit 10 returns exactly three results, the two Rust-titled conversations
\* before the Ruby-titled one.
C22_RustBeforeRuby ==
    (search.n = 1 /\ search.query = <<"R", "u">> /\ search.limit = 10) =>
        /\ Len(search.results) = 3
        /\ {search.results[1].conversation_id, search.results[2].conversation_id} = {1, 2}
        /\ search.results[3].conversation_id = 3


(***************************************************************************)
(* SpecTree: the recursive traversal of a ChatGPT mapping, one call or one *)
(* return per step (traverse_message_tree of the backend parser,           *)
(* traverse_messages and extract_messages of the native parser)            *)
(***************************************************************************)
\* an id that a children list names and the mapping does not hold
AbsentId == MaxNodes + 1

\* the longest children list of a node
MaxChildren == 2

\* the children lists: ids in their declared order; an id may be named
\* twice, by two nodes, by a descendant, and may be absent from the mapping
ChildLists == SeqsUpTo(NodeIds \cup {AbsentId}, MaxChildren)

\* a node of the mapping the traversal has not read yet
UnreadNode == [read |-> FALSE, children |-> <<>>]

\* the nodes without a message that parse_message keeps
SilentNodes == {{}, {1}, {2}}

\* the nodes the traversal starts from: the backend parser starts from the
\* one node find_root_node returns, the native parser from every node
\* without parent, in the iteration order of the HashMap.  Node ids are
\* interchangeable, so the first root is node 1 and a second one node 2.
TreeRoots(parser) ==
    IF parser = "backend" THEN {<<1>>} ELSE {<<1>>, <<1, 2>>}

\* a traversal about to start: roots are the roots not yet traversed, frames
\* the calls in progress (innermost last) with the index of the next child,
\* visited the HashSet, order the nodes read, messages the Vec (a message is
\* named by its node), mapping what the nodes read so far hold
NewTraversal(roots) ==
    [kind |-> "traversal", status |-> "running", roots |-> roots, frames |-> <<>>,
     visited |-> {}, order |-> <<>>, messages |-> <<>>,
     mapping |-> [n \in NodeIds |-> UnreadNode]]

\* the node id the next call is made on: the next child of the innermost
\* call, or the next root; 0 when the innermost call has no child left
Callee(t) ==
    IF t.frames # <<>>
    THEN LET f == t.frames[Len(t.frames)]
             ch == t.mapping[f.node].children
         IN  IF f.next <= Len(ch) THEN ch[f.next] ELSE 0
    ELSE IF t.roots # <<>> THEN Head(t.roots) ELSE 0

\* the caller goes on with its next child, or with the next root
Advance(t) ==
    IF t.frames # <<>>
    THEN [t EXCEPT !.frames[Len(t.frames)].next = @ + 1]
    ELSE [t EXCEPT !.roots = Tail(@)]

\* mutant of AlreadyVisited: only the calls in progress count as visited
AlreadyVisitedOnStack(t, c) == \E i \in 1 .. Len(t.frames) : t.frames[i].node = c

\* visited.contains(node_id) / processed.contains(node_id)
AlreadyVisited(t, c) == c \in t.visited

\* a call on a node already in the set returns at once
TraverseVisited ==
    /\ pout.status = "running"
    /\ Callee(pout) # 0
    /\ AlreadyVisited(pout, Callee(pout))
    /\ pout' = Advance(pout)
    /\ UNCHANGED pin
    /\ UNCHANGED <<storeVars, cacheVars, driverVars>>

\* a call on an id the mapping does not hold: the id is inserted into the
\* set; the backend parser returns InvalidFormat through every call in
\* progress, the native parser returns from the call
TraverseAbsent ==
    /\ pout.status = "running"
    /\ Callee(pout) = AbsentId
    /\ ~AlreadyVisited(pout, AbsentId)
    /\ pout' = IF pin.parser = "backend"
               THEN [pout EXCEPT !.status = "error", !.frames = <<>>,
                                 !.visited = @ \cup {AbsentId}]
               ELSE [Advance(pout) EXCEPT !.visited = @ \cup {AbsentId}]
    /\ UNCHANGED pin
    /\ UNCHANGED <<storeVars, cacheVars, driverVars>>

\* a call on a node of the mapping that is not in the set: the node is
\* inserted, its message (if parse_message gives one) is pushed and the
\* loop over its children starts.  children is the list the mapping holds
\* for the id, fixed when the id is first read.
TraverseEnter(children) ==
    /\ pout.status = "running"
    /\ Callee(pout) \in NodeIds
    /\ ~AlreadyVisited(pout, Callee(pout))
    /\ LET c == Callee(pout)
           held == [read |-> TRUE, children |-> children]
       IN  /\ pout.mapping[c].read => held = pout.mapping[c]
           /\ pout' = [Advance(pout) EXCEPT
                          !.visited = @ \cup {c},
                          !.mapping[c] = held,
                          !.order = Append(@, c),
                          !.messages = IF c \notin pin.silent THEN Append(@, c) ELSE @,
                          !.frames = Append(@, [node |-> c, next |-> 1])]
    /\ UNCHANGED pin
    /\ UNCHANGED <<storeVars, cacheVars, driverVars>>

\* the loop over the children has ended: the call returns
TraverseReturn ==
    /\ pout.status = "running"
    /\ pout.frames # <<>>
    /\ Callee(pout) = 0
    /\ pout' = [pout EXCEPT !.frames = SubSeq(@, 1, Len(@) - 1)]
    /\ UNCHANGED pin
    /\ UNCHANGED <<storeVars, cacheVars, driverVars>>

\* the call on the last root has returned
TraverseFinish ==
    /\ pout.status = "running"
    /\ pout.frames = <<>>
    /\ pout.roots = <<>>
    /\ pout' = [pout EXCEPT !.status = "done"]
    /\ UNCHANGED pin
    /\ UNCHANGED <<storeVars, cacheVars, driverVars>>

InitTree ==
    /\ InitTables /\ file = NoFile /\ InitCacheIdle /\ InitDriversIdle
    /\ \E parser \in {"backend", "native"} :
       \E roots \in TreeRoots(parser), silent \in SilentNodes :
          /\ pin = [provider |-> "chatgpt", parser |-> parser, roots |-> roots,
                    silent |-> silent]
          /\ pout = NewTraversal(roots)

NextTree ==
    \/ TraverseVisited
    \/ TraverseAbsent
    \/ \E children \in ChildLists : TraverseEnter(children)
    \/ TraverseReturn
    \/ TraverseFinish

\* the traversal is one sequential computation: a step that can be taken
\* is taken
SpecTree == InitTree /\ [][NextTree]_vars /\ WF_vars(NextTree)

\* the position of the first occurrence of x in s
IndexOf(s, x) == CHOOSE i \in 1 .. Len(s) : s[i] = x /\ \A j \in 1 .. i - 1 : s[j] # x

ElementsOf(s) == {s[i] : i \in 1 .. Len(s)}

\* the paths from a root along children links that pass no node twice
TreePaths(t) ==
    {p \in SeqsUpTo(NodeIds, MaxNodes) :
        /\ p # <<>>
        /\ p[1] \in ElementsOf(pin.roots)
        /\ \A i, j \in 1 .. Len(p) : i # j => p[i] # p[j]
        /\ \A i \in 1 .. Len(p) - 1 : p[i + 1] \in ElementsOf(t.mapping[p[i]].children)}

\* a path as the positions taken in the declared orders
PathKey(t, p) ==
    [i \in 1 .. Len(p) |->
        IF i = 1 THEN IndexOf(pin.roots, p[1])
        ELSE IndexOf(t.mapping[p[i - 1]].children, p[i])]

\* a comes before b: a is a proper prefix of b, or is smaller at the first
\* position where they differ
LexLess(a, b) ==
    \E k \in 1 .. Min2(Len(a), Len(b)) + 1 :
        /\ \A j \in 1 .. k - 1 : a[j] = b[j]
        /\ \/ k > Len(a) /\ k <= Len(b)
           \/ k <= Len(a) /\ k <= Len(b) /\ a[k] < b[k]

\* depth-first pre-order with children in declared order: the nodes that
\* can be reached, by their first paths
PreOrder(t) ==
    LET paths == TreePaths(t)
        reached == {p[Len(p)] : p \in paths}
        first == [v \in reached |->
                    PathKey(t, CHOOSE p \in paths :
                        /\ p[Len(p)] = v
                        /\ \A q \in paths :
                              q[Len(q)] = v /\ q # p =>
                                 LexLess(PathKey(t, p), PathKey(t, q)))]
        Before(a, b) == LexLess(first[a], first[b])
    IN  OrderBy(reached, Before)

\* no node is read twice, the messages are those of the nodes read, in the
\* order read, and a traversal that has returned Ok has read the nodes in
\* depth-first pre-order
TraversalInPreOrder ==
    pout.kind = "traversal" =>
        /\ \A i, j \in 1 .. Len(pout.order) : i # j => pout.order[i] # pout.order[j]
        /\ pout.messages = SelectSeq(pout.order, LAMBDA n : n \notin pin.silent)
        /\ \A i, j \in 1 .. Len(pout.messages) : i # j => pout.messages[i] # pout.messages[j]
        /\ pout.status = "done" => pout.order = PreOrder(pout)

\* C23: for any ChatGPT mapping, including one whose children links form
\* cycles or share a child between two parents, the traversal terminates,
\* visits each node at most once and collects the messages in depth-first
\* pre-order with children taken in their declared order, so that no message
\* appears twice in the result.
C23_TraversalTerminatesInPreOrder ==
    /\ []TraversalInPreOrder
    /\ <>(pout.status \in {"done", "error"})

\* a traversal has ended on a mapping in which the last node read names the
\* root as a child (a cycle) and two nodes name the same child
C23_Witness ==
    /\ pout.kind = "traversal"
    /\ pout.status = "done"
    /\ Len(pout.order) = MaxNodes
    /\ pout.order[1] \in ElementsOf(pout.mapping[pout.order[MaxNodes]].children)
    /\ \E a, b \in NodeIds :
          /\ a # b
          /\ ElementsOf(pout.mapping[a].children)
                \cap ElementsOf(pout.mapping[b].children) \cap NodeIds # {}


(***************************************************************************)
(* SpecClaude: the message loop of ClaudeProvider::extract_single_         *)
(* conversation, one source message per step                               *)
(* (src/backend/src/parsers/claude.rs)                                     *)
(***************************************************************************)
ClaudeDocs == {d \in Docs : d.provider = "claude" /\ d.form = "messages"}

\* mutant of FallbackTimestamp: the previous timestamp without the offset
FallbackTimestampNoOffset(last_timestamp) == last_timestamp

\* last_timestamp + chrono::Duration::microseconds(1)
FallbackTimestamp(last_timestamp) == last_timestamp + 1

\* the loop before its first turn: i is the index of the next source
\* message, messages the Vec; a kept message remembers its source index
NewClaudeLoop(doc) ==
    [kind |-> "claude", status |-> "loop", i |-> 1,
     last_timestamp |-> OrElse(doc.create_time, NowTs),
     messages |-> <<>>, result |-> NoOut]

\* a message whose sender is not a known role: continue
ClaudeSkipMessage ==
    /\ pout.status = "loop"
    /\ pout.i <= Len(pin.messages)
    /\ from_provider_role(pin.messages[pout.i].role, "claude") = Null
    /\ pout' = [pout EXCEPT !.i = @ + 1]
    /\ UNCHANGED pin
    /\ UNCHANGED <<storeVars, cacheVars, driverVars>>

\* a message with a known role: its timestamp is the parsed one or the
\* fallback, last_timestamp is set to it, and the message is pushed when
\* it has text
ClaudeTakeMessage ==
    /\ pout.status = "loop"
    /\ pout.i <= Len(pin.messages)
    /\ LET m == pin.messages[pout.i]
           role == from_provider_role(m.role, "claude")
           timestamp == IF m.ts # NoTs THEN m.ts
                        ELSE FallbackTimestamp(pout.last_timestamp)
       IN  /\ role # Null
           /\ pout' = [pout EXCEPT
                          !.i = @ + 1,
                          !.last_timestamp = timestamp,
                          !.messages = IF m.text = "" THEN @
                                       ELSE Append(@, [role |-> role,
                                                       timestamp |-> timestamp,
                                                       index |-> pout.i])]
    /\ UNCHANGED pin
    /\ UNCHANGED <<storeVars, cacheVars, driverVars>>

\* after the loop: the system prompt is lifted and the conversation built
ClaudeFinish ==
    /\ pout.status = "loop"
    /\ pout.i > Len(pin.messages)
    /\ pout' = [pout EXCEPT !.status = "done",
                            !.result = claude_extract_single_conversation(pin)]
    /\ UNCHANGED pin
    /\ UNCHANGED <<storeVars, cacheVars, driverVars>>

InitClaude ==
    /\ InitTables /\ file = NoFile /\ InitCacheIdle /\ InitDriversIdle
    /\ pin \in ClaudeDocs
    /\ pout = NewClaudeLoop(pin)

NextClaude == ClaudeSkipMessage \/ ClaudeTakeMessage \/ ClaudeFinish

SpecClaude == InitClaude /\ [][NextClaude]_vars

\* the timestamp the source message i has when every message without a
\* timestamp takes that of the message before it in the source, plus one
RECURSIVE SourceTimestamp(_, _)
SourceTimestamp(doc, i) ==
    IF i = 0 THEN OrElse(doc.create_time, NowTs)
    ELSE IF doc.messages[i].ts # NoTs THEN doc.messages[i].ts
    ELSE SourceTimestamp(doc, i - 1) + 1

\* the same, when the messages whose sender is not a known role are left
\* out of the count
RECURSIVE KnownRoleTimestamp(_, _)
KnownRoleTimestamp(doc, i) ==
    IF i = 0 THEN OrElse(doc.create_time, NowTs)
    ELSE IF from_provider_role(doc.messages[i].role, "claude") = Null
         THEN KnownRoleTimestamp(doc, i - 1)
    ELSE IF doc.messages[i].ts # NoTs THEN doc.messages[i].ts
    ELSE KnownRoleTimestamp(doc, i - 1) + 1

\* the kept messages are in source order, and those of a run of source
\* messages without timestamp have strictly increasing timestamps
RunsIncrease ==
    \A a, b \in 1 .. Len(pout.messages) :
        a < b =>
            /\ pout.messages[a].index < pout.messages[b].index
            /\ (\A i \in pout.messages[a].index .. pout.messages[b].index :
                   pin.messages[i].ts = NoTs)
               => pout.messages[a].timestamp < pout.messages[b].timestamp

\* C24 as stated: in the Claude parser a message without a parseable
\* timestamp gets the timestamp of the previous message in source order
\* (the conversation's created_at for the first message) plus 1 microsecond,
\* so any run of consecutive timestamp-less messages gets strictly
\* increasing timestamps and keeps its source order.
C24_PreviousSourceMessage ==
    pout.kind = "claude" =>
        /\ \A k \in 1 .. Len(pout.messages) :
              pin.messages[pout.messages[k].index].ts = NoTs =>
                 pout.messages[k].timestamp =
                    SourceTimestamp(pin, pout.messages[k].index - 1) + 1
        /\ RunsIncrease

\* C24 amended: a message without a parseable timestamp gets the timestamp
\* of the previous message with a known sender role (the conversation's
\* created_at, or the time of parsing when that is missing, for the first
\* such message) plus 1 microsecond: a message with an unknown role is
\* passed over before its timestamp is read.  Any run of consecutive
\* timestamp-less messages gets strictly increasing timestamps and keeps
\* its source order.
C24_PreviousKnownRoleMessage ==
    pout.kind = "claude" =>
        /\ \A k \in 1 .. Len(pout.messages) :
              pin.messages[pout.messages[k].index].ts = NoTs =>
                 pout.messages[k].timestamp =
                    KnownRoleTimestamp(pin, pout.messages[k].index - 1) + 1
        /\ RunsIncrease
        /\ pout.status = "done" /\ pout.result.kind = "conversation" =>
              pout.result.messages =
                 LiftSystemPrompt([k \in 1 .. Len(pout.messages) |->
                                      [role |-> pout.messages[k].role,
                                       timestamp |-> pout.messages[k].timestamp]])

\* the loop has ended on a conversation whose last two messages have no
\* timestamp and follow a message with an unknown role that has one
C24_Witness ==
    /\ pout.kind = "claude"
    /\ pout.status = "done"
    /\ Len(pin.messages) = 3
    /\ from_provider_role(pin.messages[1].role, "claude") = Null
    /\ pin.messages[1].ts # NoTs
    /\ pin.messages[2].ts = NoTs
    /\ pin.messages[3].ts = NoTs
    /\ Len(pout.messages) = 2


(***************************************************************************)
(* SpecMaint: cache_maintenance_task beside the callers that fill the      *)
(* search cache and the conversation cache (src/backend/src/cache.rs,      *)
(* spawned in src/backend/src/main_enhanced.rs)                            *)
(***************************************************************************)
\* ConversationCache::new: a longer time to live than SearchCache::new
ConvTTL == TTL + 1

\* the period of tokio::time::interval, shorter than the times to live
MaintInterval == 1

\* the clock stops at a tick of the interval, late enough for every entry
\* to have expired
MaintMaxTime == MaintInterval * (ConvTTL + MaxLag + 1)

\* the keys the callers cache under
MaintKeys == 1 .. Capacity

\* mutant of evict_expired: nothing is removed
evict_expired_keeps_all(c, t) == c

\* SmartCache::evict_expired with the clock read as t: the entries left
evict_expired(c, t) == SelectSeq(c, LAMBDA e : ~Expired(e, t))

\* the task before its first turn: interval.tick() completes at once the
\* first time.  searched and convs are history: the numbers of entries the
\* task removed from the two caches in its last turn.
MaintTask == [pc |-> "tick", due |-> 0, searched |-> 0, convs |-> 0]

\* SearchCache::cache_results by some request
MaintCacheResults(k) ==
    /\ now + TTL <= MaintMaxTime - MaxLag
    /\ cache' = LruPut(cache, k, [key |-> k, value |-> ValueOf(k),
                                  expires_at |-> now + TTL])
    /\ UNCHANGED <<now, lastOp, run>>
    /\ UNCHANGED <<storeVars, parseVars, script, search, pimp, taskVars>>

\* ConversationCache::insert by some request
MaintConvInsert(k) ==
    /\ now + ConvTTL <= MaintMaxTime - MaxLag
    /\ conv_cache' = LruPut(conv_cache, k, [key |-> k, value |-> ValueOf(k),
                                            expires_at |-> now + ConvTTL])
    /\ UNCHANGED tasks
    /\ UNCHANGED <<storeVars, cacheVars, parseVars, script, search, pimp>>

\* interval.tick().await completes when the next tick is due
MaintTick ==
    /\ tasks.pc = "tick"
    /\ now >= tasks.due
    /\ tasks' = [pc |-> "search", due |-> tasks.due + MaintInterval,
                 searched |-> 0, convs |-> 0]
    /\ UNCHANGED conv_cache
    /\ UNCHANGED <<storeVars, cacheVars, parseVars, script, search, pimp>>

\* search_cache.cache.evict_expired().await: the clock is read up to lag
\* before the write lock is held
MaintEvictSearch(lag) ==
    /\ tasks.pc = "search"
    /\ lag <= now
    /\ cache' = evict_expired(cache, now - lag)
    /\ tasks' = [tasks EXCEPT !.pc = "conv",
                               !.searched = Len(cache) - Len(cache')]
    /\ UNCHANGED <<now, lastOp, run, conv_cache>>
    /\ UNCHANGED <<storeVars, parseVars, script, search, pimp>>

\* conv_cache.cache.evict_expired().await, and back to the head of the loop
MaintEvictConv(lag) ==
    /\ tasks.pc = "conv"
    /\ lag <= now
    /\ conv_cache' = evict_expired(conv_cache, now - lag)
    /\ tasks' = [tasks EXCEPT !.pc = "tick",
                               !.convs = Len(conv_cache) - Len(conv_cache')]
    /\ UNCHANGED <<storeVars, cacheVars, parseVars, script, search, pimp>>

\* a turn of the task
MaintStep ==
    \/ MaintTick
    \/ \E lag \in 0 .. MaxLag : MaintEvictSearch(lag)
    \/ \E lag \in 0 .. MaxLag : MaintEvictConv(lag)

\* time passes
MaintClock ==
    /\ now < MaintMaxTime
    /\ now' = now + 1
    /\ UNCHANGED <<cache, lastOp, run>>
    /\ UNCHANGED <<storeVars, parseVars, driverVars>>

InitMaint ==
    /\ InitTables /\ file = NoFile /\ InitCacheIdle /\ InitParseIdle
    /\ script = NoScript /\ search = NoSearch /\ pimp = NoImport
    /\ conv_cache = <<>>
    /\ tasks = MaintTask

NextMaint ==
    \/ \E k \in MaintKeys : MaintCacheResults(k)
    \/ \E k \in MaintKeys : MaintConvInsert(k)
    \/ MaintStep
    \/ MaintClock

\* the runtime schedules the spawned task whenever it can take a step (the
\* write lock of tokio's RwLock is granted in FIFO order), and time passes
SpecMaint ==
    InitMaint /\ [][NextMaint]_vars /\ WF_vars(MaintStep) /\ WF_vars(MaintClock)

\* the cache c holds for key k the entry that expires at e
Holds(c, k, e) == \E i \in 1 .. Len(c) : c[i].key = k /\ c[i].expires_at = e

\* the entries of c that are not in d have expired
RemovesOnlyExpired(c, d) ==
    \A i \in 1 .. Len(c) :
        (\A j \in 1 .. Len(d) : d[j] # c[i]) => c[i].expires_at <= now

\* C27: under fair scheduling of the maintenance task, every entry inserted
\* into the search-results cache or the conversation-preview cache is
\* eventually removed after its expiry even if it is never read again,
\* unless it is re-inserted first (the entry with that expiry is then
\* replaced); the task loops forever (it is always at one of the three
\* positions of its loop) and never removes an unexpired entry.
C27_ExpiredEntriesEventuallyEvicted ==
    /\ \A k \in MaintKeys : \A e \in TTL .. MaintMaxTime :
          Holds(cache, k, e) ~> ~Holds(cache, k, e)
    /\ \A k \in MaintKeys : \A e \in ConvTTL .. MaintMaxTime :
          Holds(conv_cache, k, e) ~> ~Holds(conv_cache, k, e)
    /\ [](tasks.pc \in {"tick", "search", "conv"})
    /\ [][tasks' # tasks =>
             /\ RemovesOnlyExpired(cache, cache')
             /\ RemovesOnlyExpired(conv_cache, conv_cache')]_vars

\* the task has removed an expired entry from the conversation cache while
\* the search cache holds a fresh one
C27_Witness ==
    /\ tasks.pc = "tick"
    /\ tasks.convs > 0
    /\ tasks.searched = 0
    /\ conv_cache = <<>>
    /\ \E i \in 1 .. Len(cache) : Fresh(cache[i], now)


(***************************************************************************)
(* SpecLru: SmartCache with a caller that remembers in which order it      *)
(* touched the keys (src/backend/src/cache.rs)                             *)
(***************************************************************************)
\* the caller's record after it has touched key k: most recent first
Touch(order, k) == <<k>> \o SelectSeq(order, LAMBDA x : x # k)

\* insert(k, v).  pc = 2 records that this insert of a new key into a full
\* cache is the first insert since the caller read, in a full cache, the
\* entry that was then the least recently used one (kept in reads).
LruInsert(k) ==
    /\ SmartCacheInsert(k, ValueOf(k), 0)
    /\ LET follows == /\ script.pc = 1
                      /\ k \notin CacheKeys(cache)
                      /\ Len(cache) = Capacity
       IN  script' = [pc |-> IF follows THEN 2 ELSE 0,
                      keys |-> Touch(script.keys, k),
                      reads |-> IF follows THEN script.reads ELSE <<>>]
    /\ UNCHANGED <<storeVars, parseVars, search, pimp, taskVars>>

\* get(k): a get that returns the value touches the key
LruGet(k) ==
    /\ SmartCacheGet(k)
    /\ script' = IF k \in CacheKeys(cache) /\ Fresh(Entry(cache, k), now)
                 THEN IF Len(cache) = Capacity /\ cache[Capacity].key = k
                      THEN [pc |-> 1, keys |-> Touch(script.keys, k), reads |-> <<k>>]
                      ELSE [script EXCEPT !.keys = Touch(script.keys, k)]
                 ELSE script
    /\ UNCHANGED <<storeVars, parseVars, search, pimp, taskVars>>

InitLru == InitCache

NextLru ==
    \/ \E k \in Keys : LruInsert(k)
    \/ \E k \in Keys : LruGet(k)
    \/ EvictExpired(0)
    \/ Tick

SpecLru == InitLru /\ [][NextLru]_vars

\* the position of key k in the caller's record
TouchRank(k) == CHOOSE i \in 1 .. Len(script.keys) : script.keys[i] = k

\* C28: a successful get(k) makes k the most recently used entry: in a full
\* cache the next insert of a new key evicts the entry least recently
\* touched by insert or get, never the key just read; evict_expired and a
\* get that misses do not change the recency order of the remaining entries.
C28_GetPromotes ==
    [][/\ (lastOp'.op = "get" /\ lastOp'.ret # Absent) =>
             /\ cache'[1].key = lastOp'.key
             /\ LruPop(cache', lastOp'.key) = LruPop(cache, lastOp'.key)
       /\ (/\ lastOp'.op = "insert"
           /\ lastOp'.key \notin CacheKeys(cache)
           /\ Len(cache) = Capacity) =>
             /\ \E victim \in CacheKeys(cache) :
                   /\ CacheKeys(cache') = (CacheKeys(cache) \ {victim}) \cup {lastOp'.key}
                   /\ \A k \in CacheKeys(cache) \ {victim} :
                         TouchRank(k) < TouchRank(victim)
             /\ script.pc = 1 => script.reads[1] \in CacheKeys(cache')
       /\ (lastOp'.op = "evict" \/ (lastOp'.op = "get" /\ lastOp'.ret = Absent)) =>
             cache' = SelectSeq(cache, LAMBDA e : e.key \in CacheKeys(cache'))]_vars

\* the caller has read the least recently used entry of a full cache and
\* then inserted a new key: the key read is still cached, the key that was
\* touched before it is gone
C28_Witness ==
    /\ script.pc = 2
    /\ lastOp.op = "insert"
    /\ script.reads[1] \in CacheKeys(cache)
    /\ Len(cache) = Capacity


(***************************************************************************)
(* SpecConc: tasks that run process_conversation_batch at the same time,   *)
(* each on its own connection of the pool (src/src/import/mod.rs,          *)
(* src/src/db/mod.rs)                                                      *)
(***************************************************************************)
\* the tasks that import at the same time
NumTasks == 2

TaskIds == 1 .. NumTasks

\* the (provider, external_id) every task imports
SharedConv(t) == [provider |-> "chatgpt", external_id |-> "e1", title |-> <<"title", t>>]

\* the text of the messages of task t
ContentOf(t) == <<"message", t>>

\* the batches of task t: the shared conversation with one or two messages
ConcBatches(t) ==
    {<<[conv |-> SharedConv(t),
        msgs |-> [i \in 1 .. n |-> [role |-> "user", content |-> ContentOf(t)]]]>> :
        n \in 1 .. 2}

\* the store before the tasks start: empty, or holding the conversation
\* from an earlier import
ConcStores ==
    {[conversations |-> {}, messages |-> {}, fts |-> {}],
     Commit(Db, RunTx(BeginTx([conversations |-> {}, messages |-> {}, fts |-> {}]),
                      BatchOps(<<[conv |-> SharedConv(0),
                                  msgs |-> <<[role |-> "user",
                                              content |-> ContentOf(0)]>>]>>), 2))}

\* a task about to call process_conversation_batch: done counts the
\* statements executed, tx is the transaction's view of the tables
NewTask(batch) ==
    [pc |-> "start", batch |-> batch, done |-> 0,
     tx |-> BeginTx([conversations |-> {}, messages |-> {}, fts |-> {}]),
     result |-> Null]

\* what the tasks leave alone
concFrame ==
    <<import_events, file, imp, nCalls, prev, lastBatch, cacheVars, parseVars,
      script, search, pimp, conv_cache>>

\* mutant of WriteLockFree: a connection never waits for another writer
WriteLockAlwaysFree(ts) == TRUE

\* SQLite admits one writer: the write lock is free when no transaction
\* has written without having committed or rolled back
WriteLockFree(ts) == \A t \in TaskIds : ts[t].pc # "write"

\* pool.begin(): a connection is taken and BEGIN is sent; a deferred
\* transaction takes no lock and no snapshot before its first statement
ConcBegin(t) ==
    /\ tasks[t].pc = "start"
    /\ tasks' = [tasks EXCEPT ![t].pc = "begun"]
    /\ UNCHANGED <<conversations, messages, messages_fts>>
    /\ UNCHANGED concFrame

\* the first statement (the upsert of the conversation) gets the write lock
\* and runs on the tables as committed at that instant
ConcFirstWrite(t) ==
    /\ tasks[t].pc = "begun"
    /\ WriteLockFree(tasks)
    /\ tasks' = [tasks EXCEPT ![t].pc = "write", ![t].done = 1,
                              ![t].tx = ExecOp(BeginTx(Db), BatchOps(tasks[t].batch)[1])]
    /\ UNCHANGED <<conversations, messages, messages_fts>>
    /\ UNCHANGED concFrame

\* the first statement finds the write lock held until the busy timeout of
\* the connection runs out: SQLITE_BUSY, the `?` returns and the
\* transaction is dropped
ConcBusy(t) ==
    /\ tasks[t].pc = "begun"
    /\ ~WriteLockFree(tasks)
    /\ tasks' = [tasks EXCEPT ![t].pc = "done",
                              ![t].result = "Failed to insert conversation"]
    /\ UNCHANGED <<conversations, messages, messages_fts>>
    /\ UNCHANGED concFrame

\* a later statement of the transaction
ConcStatement(t) ==
    /\ tasks[t].pc = "write"
    /\ tasks[t].done < Len(BatchOps(tasks[t].batch))
    /\ tasks' = [tasks EXCEPT ![t].done = @ + 1,
                              ![t].tx = ExecOp(@, BatchOps(tasks[t].batch)[tasks[t].done + 1])]
    /\ UNCHANGED <<conversations, messages, messages_fts>>
    /\ UNCHANGED concFrame

\* tx.commit()
ConcCommit(t) ==
    /\ tasks[t].pc = "write"
    /\ tasks[t].done = Len(BatchOps(tasks[t].batch))
    /\ LET db == Commit(Db, tasks[t].tx)
       IN  /\ conversations' = db.conversations
           /\ messages' = db.messages
           /\ messages_fts' = db.fts
    /\ tasks' = [tasks EXCEPT ![t].pc = "done", ![t].result = "ok"]
    /\ UNCHANGED concFrame

InitConc ==
    /\ \E db \in ConcStores :
          /\ conversations = db.conversations
          /\ messages = db.messages
          /\ messages_fts = db.fts
    /\ import_events = {} /\ imp = IdleImp /\ nCalls = 0 /\ prev = NoPrev
    /\ lastBatch = NoBatch /\ file = NoFile
    /\ InitCacheIdle /\ InitParseIdle
    /\ script = NoScript /\ search = NoSearch /\ pimp = NoImport /\ conv_cache = <<>>
    /\ tasks \in {ts \in [TaskIds -> UNION {{NewTask(b) : b \in ConcBatches(t)} :
                                              t \in TaskIds}] :
                     \A t \in TaskIds : ts[t].batch \in ConcBatches(t)}

NextConc ==
    \/ \E t \in TaskIds : ConcBegin(t)
    \/ \E t \in TaskIds : ConcFirstWrite(t)
    \/ \E t \in TaskIds : ConcBusy(t)
    \/ \E t \in TaskIds : ConcStatement(t)
    \/ \E t \in TaskIds : ConcCommit(t)

SpecConc == InitConc /\ [][NextConc]_vars

\* the rows of the shared (provider, external_id)
SharedRows ==
    {r \in conversations : r.provider = "chatgpt" /\ r.external_id = "e1"}

\* C29: when two tasks concurrently run process_conversation_batch on a
\* conversation with the same non-null (provider, external_id), then under
\* every interleaving exactly one conversation row for that pair exists
\* afterwards, the messages inserted by both tasks reference that single
\* row, and neither task fails with a uniqueness violation (a task may
\* fail because the database stayed locked; it has then inserted nothing).
C29_OneRowUnderConcurrency ==
    /\ Cardinality(SharedRows) <= 1
    /\ (\A t \in TaskIds : tasks[t].pc = "done") =>
          /\ Cardinality(SharedRows) = 1
          /\ \A m \in messages : \E r \in SharedRows : m.conversation_id = r.id
          /\ \A t \in TaskIds :
                /\ tasks[t].result = "ok" =>
                      Cardinality({m \in messages : m.content = ContentOf(t)})
                         = Len(tasks[t].batch[1].msgs)
                /\ tasks[t].result # "ok" =>
                      /\ {m \in messages : m.content = ContentOf(t)} = {}
                      /\ \E o \in TaskIds : o # t /\ tasks[o].result = "ok"

\* both tasks have committed their batch: one row, the messages of both
C29_Witness ==
    /\ \A t \in TaskIds : tasks[t].pc = "done" /\ tasks[t].result = "ok"
    /\ Cardinality(SharedRows) = 1
    /\ Cardinality(messages) >= 2 * NumTasks


(***************************************************************************)
(* SpecStale: searches that run at the same time as each other and as an   *)
(* import (src/backend/src/search_enhanced.rs, src/backend/src/cache.rs,   *)
(* src/src/import/mod.rs)                                                  *)
(***************************************************************************)
\* the tasks that call incremental_search
Searchers == {1, 2}

\* the queries they type: three cache keys, one more than the cache holds
StaleQueries == {<<"a">>, <<"A">>, <<"b">>, <<"a", "b", "c">>}

StaleKeys == {to_lowercase(q) : q \in StaleQueries}

EmptyStore == [conversations |-> {}, messages |-> {}, fts |-> {}]

\* the archive before the import: one conversation no query for "a" finds
StaleArchive ==
    process_conversation_batch(EmptyStore,
        <<[conv |-> [provider |-> "chatgpt", external_id |-> "e1", title |-> <<"b">>],
           msgs |-> <<[role |-> "user", content |-> <<"b">>]>>]>>, NoFail).db

\* the batch the import commits: a conversation the queries for "a" find
StaleBatch ==
    <<[conv |-> [provider |-> "chatgpt", external_id |-> "e2", title |-> <<"a">>],
       msgs |-> <<[role |-> "user", content |-> <<"a", "b", "c">>]>>]>>

\* what the searches and the import leave alone
staleFrame ==
    <<now, lastOp, run, import_events, file, imp, nCalls, prev, lastBatch,
      parseVars, script, pimp, conv_cache>>

\* a task that is not inside incremental_search
IdleSearcher ==
    [pc |-> "idle", query |-> <<>>, limit |-> 0, ret |-> "none", ran |-> <<>>,
     results |-> <<>>]

\* search_cache.get_results(query): a hit returns the cached list at once
SearchLookup(t, query, limit) ==
    /\ tasks[t].pc = "idle"
    /\ LET k   == to_lowercase(query)
           hit == k \in CacheKeys(cache) /\ Fresh(Entry(cache, k), now)
       IN  /\ cache' = CacheAfterGet(cache, k, now)
           /\ tasks' = [tasks EXCEPT ![t] =
                 IF hit
                 THEN [pc |-> "done", query |-> query, limit |-> limit, ret |-> "hit",
                       ran |-> <<>>, results |-> Entry(cache, k).value]
                 ELSE [pc |-> "query", query |-> query, limit |-> limit,
                       ret |-> "none", ran |-> <<>>, results |-> <<>>]]
    /\ UNCHANGED <<conversations, messages, messages_fts, search>>
    /\ UNCHANGED staleFrame

\* prefix_search or fts_search on the tables as they are now; a failure
\* returns by `?`
SearchQueryStore(t, fails) ==
    /\ tasks[t].pc = "query"
    /\ LET out == StoreSearch(tasks[t].query, tasks[t].limit, fails)
       IN  tasks' = [tasks EXCEPT ![t].pc = IF out.ok THEN "store" ELSE "done",
                                  ![t].ret = IF out.ok THEN "none" ELSE "err",
                                  ![t].ran = out.ran,
                                  ![t].results = out.results]
    /\ UNCHANGED <<conversations, messages, messages_fts, cache, search>>
    /\ UNCHANGED staleFrame

\* search_cache.cache_results(query, results.clone()), then Ok(results);
\* search.last records the list stored for each key, search.raced that an
\* entry stored since this call's lookup was replaced
SearchCacheResults(t) ==
    /\ tasks[t].pc = "store"
    /\ LET k == to_lowercase(tasks[t].query)
       IN  /\ cache' = cache_results(cache, tasks[t].query, tasks[t].results, now)
           /\ search' = [last  |-> [search.last EXCEPT ![k] = tasks[t].results],
                         raced |-> search.raced \/ k \in CacheKeys(cache)]
    /\ tasks' = [tasks EXCEPT ![t].pc = "done", ![t].ret = "ok"]
    /\ UNCHANGED <<conversations, messages, messages_fts>>
    /\ UNCHANGED staleFrame

\* the caller has the result and may search again
SearchReturn(t) ==
    /\ tasks[t].pc = "done"
    /\ tasks' = [tasks EXCEPT ![t] = IdleSearcher]
    /\ UNCHANGED <<conversations, messages, messages_fts, cache, search>>
    /\ UNCHANGED staleFrame

\* an import commits a batch while searches are running
ImportCommits ==
    /\ \A r \in conversations : r.external_id # StaleBatch[1].conv.external_id
    /\ LET out == process_conversation_batch(Db, StaleBatch, NoFail)
       IN  /\ conversations' = out.db.conversations
           /\ messages' = out.db.messages
           /\ messages_fts' = out.db.fts
    /\ UNCHANGED <<cache, search, tasks>>
    /\ UNCHANGED staleFrame

InitStale ==
    /\ conversations = StaleArchive.conversations
    /\ messages = StaleArchive.messages
    /\ messages_fts = StaleArchive.fts
    /\ import_events = {} /\ imp = IdleImp /\ nCalls = 0 /\ prev = NoPrev
    /\ lastBatch = NoBatch /\ file = NoFile
    /\ InitCacheIdle /\ InitParseIdle
    /\ script = NoScript /\ pimp = NoImport /\ conv_cache = <<>>
    /\ search = [last |-> [k \in StaleKeys |-> <<>>], raced |-> FALSE]
    /\ tasks = [t \in Searchers |-> IdleSearcher]

\* time passes, until an entry cached at the start has expired
StaleTick ==
    /\ now < TTL
    /\ now' = now + 1
    /\ UNCHANGED <<cache, lastOp, run>>
    /\ UNCHANGED <<storeVars, parseVars, driverVars>>

NextStale ==
    \/ \E t \in Searchers, query \in StaleQueries : SearchLookup(t, query, MaxLimit)
    \/ \E t \in Searchers, fails \in BOOLEAN : SearchQueryStore(t, fails)
    \/ \E t \in Searchers : SearchCacheResults(t)
    \/ \E t \in Searchers : SearchReturn(t)
    \/ ImportCommits
    \/ StaleTick
    \/ CacheMaintenance

SpecStale == InitStale /\ [][NextStale]_vars


\* the key is cached and has not expired
CachedFresh(k) == k \in CacheKeys(cache) /\ Fresh(Entry(cache, k), now)

\* C30: a cache hit in incremental_search returns exactly the list stored
\* by the most recent cache_results for the lowercased query and never
\* consults the store; an import that commits does not touch the cache, so
\* the list stored before the import is served for as long as the entry is
\* cached and fresh; an entry leaves the cache only when it has expired or
\* when an insert of another key into the full cache evicts it; and a
\* search that missed stores its own list whatever another search has
\* stored for the key in the meantime.
C30_HitServesStoredList ==
    [][/\ \A t \in Searchers :
             /\ (tasks[t].pc = "idle" /\ tasks'[t].pc # "idle") =>
                   LET k == to_lowercase(tasks'[t].query)
                   IN  /\ (tasks'[t].ret = "hit") <=> CachedFresh(k)
                       /\ tasks'[t].ret = "hit" =>
                             /\ tasks'[t].pc = "done"
                             /\ tasks'[t].results = search.last[k]
                             /\ tasks'[t].ran = <<>>
             /\ (tasks[t].pc = "store" /\ tasks'[t].pc = "done") =>
                   LET k == to_lowercase(tasks[t].query)
                   IN  /\ k \in CacheKeys(cache')
                       /\ Entry(cache', k).value = tasks[t].results
                       /\ search'.last[k] = tasks[t].results
       /\ <<conversations, messages, messages_fts>>' # <<conversations, messages, messages_fts>>
             => cache' = cache
       /\ \A k \in CacheKeys(cache) \ CacheKeys(cache') :
             \/ Expired(Entry(cache, k), now)
             \/ /\ Len(cache) = Capacity
                /\ \E t \in Searchers :
                      /\ tasks[t].pc = "store" /\ tasks'[t].pc = "done"
                      /\ to_lowercase(tasks[t].query) # k
      ]_vars

\* a search is served the empty list cached before the import although the
\* store now has a match for it, after two searches for one key had both
\* queried the store and the later insert had replaced the earlier one
C30_Witness ==
    /\ search.raced
    /\ \E t \in Searchers :
          /\ tasks[t].pc = "done" /\ tasks[t].ret = "hit"
          /\ tasks[t].results = <<>>
          /\ StoreSearch(tasks[t].query, 0 - 1, FALSE).results # <<>>

====
